---- MODULE Spec2Model ----
(***************************************************************************)
(* A model of the graph/* subsystem: the connection manager and its retry  *)
(* policy (graph/connection.py), the repository's queries over a property  *)
(* graph store (graph/repository.py) and the domain service                *)
(* (graph/service.py).                                                     *)
(*                                                                         *)
(* Ten specifications share the module:                                    *)
(*   SpecConn  the connection manager used by one caller at a time: every  *)
(*             wrapped call is a sequence of steps (attempt, sleep, ...),  *)
(*             the store's answer to each attempt chosen by the            *)
(*             environment;                                                *)
(*   Spec      the domain service over a reachable, healthy store: every   *)
(*             service operation is one atomic step (calls do not overlap);*)
(*   SpecUpd   one call of the service on a store with content: the        *)
(*             updates, the deletions and the lookups;                     *)
(*   SpecSub   one get_subgraph query on a store with content;             *)
(*   SpecBatch one batch on a store with content or empty, the connection  *)
(*             failing for good at an item the environment chooses;        *)
(*   SpecRace  two create_node calls whose transactions interleave;        *)
(*   SpecQuery the model layer's validation of one call and the text of    *)
(*             the queries composed for it;                                *)
(*   SpecRel   one call on relationships with open properties, get_stats   *)
(*             or clear_all, on a store with content;                      *)
(*   SpecWrite create_node calls whose write is retried, each attempt      *)
(*             committed or not as the environment chooses;                *)
(*   SpecLink  create_relationship and delete_node calls of two callers    *)
(*             whose transactions interleave.                              *)
(* Each leaves the variables it does not model unchanged.                  *)
(***************************************************************************)
EXTENDS Integers, Sequences, FiniteSets, TLC

VARIABLES
    driver,     \* Neo4jConnection._driver: 0 is None, d > 0 the d-th driver made
    made,       \* how many drivers GraphDatabase.driver() has returned
    closedD,    \* the drivers whose close() has run
    verifiedD,  \* the drivers whose verify_connectivity() has returned
    sessions,   \* one entry per session ever opened: [open, opener, users]
    ncalls,     \* calls begun on the manager
    call,       \* the frame of the call in flight, or of the last one
    nodes,      \* the store's nodes: [id, labels, props]
    rels,       \* the store's relationships: [id, src, tgt, type, props]
    nextRel,    \* the store's next relationship id
    uuids,      \* how many uuid4() values the repository has drawn; the
                \* node written with the i-th value has the store's id i
    constraint, \* whether the uniqueness constraint on uid is declared
    last,       \* the last service call: [op, arg, outcome, ret, log]
    procs       \* the calls of two concurrent callers, each
                \* [pc, data, outcome, ret, checkAt, writeAt]

connVars == <<driver, made, closedD, verifiedD, sessions, ncalls, call>>

storeVars == <<nodes, rels, nextRel, uuids, constraint, last, procs>>

vars == <<driver, made, closedD, verifiedD, sessions, ncalls, call,
          nodes, rels, nextRel, uuids, constraint, last, procs>>

(***************************************************************************)
(* Bounds of the model.                                                    *)
(***************************************************************************)
MaxCalls == 3           \* calls made on one connection manager
MaxAttemptsBound == 4   \* largest max_attempts given to with_retry
MaxNodes == 2           \* create_node writes in one behaviour of the service
MaxRels == 1            \* create_relationship writes in one behaviour

(***************************************************************************)
(* graph/connection.py: the retry policy.                                  *)
(***************************************************************************)

\* neo4j.exceptions raised by the driver; AuthError is a ClientError there.
RetryableTypes == {"ServiceUnavailable", "SessionExpired", "TransientError", "OSError"}
ClientErrorTypes == {"ClientError", "AuthError"}

\* The exceptions the environment makes an attempt raise (one per class of
\* the classification; SessionExpired and OSError behave as the other two
\* retryable ones).
Excs == {"ServiceUnavailable", "TransientError", "ClientError", "AuthError", "DatabaseError"}

_RETRYABLE_EXCEPTIONS(t) == t \in RetryableTypes

NoExc == [type |-> "None", at |-> 0]

\* The parameters of the three decorated methods.
ConnectPolicy == [max_attempts |-> 3, base_delay |-> 2, backoff_factor |-> 2]
ExecutePolicy == [max_attempts |-> 3, base_delay |-> 1, backoff_factor |-> 2]

\* Policies given to with_retry around an arbitrary operation ("fn").
Policies ==
    [max_attempts : 1..MaxAttemptsBound, base_delay : {1, 2}, backoff_factor : {1, 2}]

Ops == {"connect", "execute_read", "execute_write", "fn"}

PolicyOf(op) == IF op = "connect" THEN {ConnectPolicy}
                ELSE IF op = "fn" THEN Policies
                ELSE {ExecutePolicy}

IdleFrame ==
    [op |-> "none", pc |-> "idle", policy |-> ExecutePolicy,
     attempt |-> 0, delay |-> 0, sleeps |-> <<>>, invoked |-> 0,
     last_exc |-> NoExc, outcome |-> "none", cause |-> NoExc, result |-> 0,
     session |-> 0, id |-> 0, d0 |-> 0, made0 |-> 0, closed0 |-> {},
     trace |-> <<>>]

\* wrapper, lines 43-46: the frame on entry, about to make its first attempt.
NewFrame(op, p, id, d, m, c) ==
    [IdleFrame EXCEPT !.op = op, !.pc = "attempt", !.policy = p, !.id = id,
                      !.attempt = 1, !.delay = p.base_delay,
                      !.d0 = d, !.made0 = m, !.closed0 = c]

\* wrapper, line 48: fn returned.
OnReturn(f) == [f EXCEPT !.pc = "done", !.outcome = "return", !.result = f.attempt]

\* A mutant of OnRaise: the loop's last attempt is not recognised, so that
\* the wrapper sleeps after it as well and gives up one attempt late.
OnRaiseNoBreak(f, t, cause) ==
    IF _RETRYABLE_EXCEPTIONS(t)
    THEN IF f.attempt > f.policy.max_attempts
         THEN [f EXCEPT !.pc = "done", !.outcome = "GraphConnectionError",
                        !.last_exc = [type |-> t, at |-> f.attempt],
                        !.cause = [type |-> t, at |-> f.attempt]]
         ELSE [f EXCEPT !.pc = "sleep", !.last_exc = [type |-> t, at |-> f.attempt]]
    ELSE [f EXCEPT !.pc = "done", !.outcome = t, !.cause = cause]

\* A mutant of OnRaise: every exception of the store is retried.
OnRaiseRetryAll(f, t, cause) ==
    IF f.attempt = f.policy.max_attempts
    THEN [f EXCEPT !.pc = "done", !.outcome = "GraphConnectionError",
                   !.last_exc = [type |-> t, at |-> f.attempt],
                   !.cause = [type |-> t, at |-> f.attempt]]
    ELSE [f EXCEPT !.pc = "sleep", !.last_exc = [type |-> t, at |-> f.attempt]]

\* A mutant of OnRaise: the error raised on exhaustion is chained to the
\* first failure instead of the last.
OnRaiseFirstCause(f, t, cause) ==
    IF _RETRYABLE_EXCEPTIONS(t)
    THEN LET first == IF f.last_exc = NoExc THEN [type |-> t, at |-> f.attempt]
                      ELSE f.last_exc
         IN IF f.attempt = f.policy.max_attempts
            THEN [f EXCEPT !.pc = "done", !.outcome = "GraphConnectionError",
                           !.last_exc = first, !.cause = first]
            ELSE [f EXCEPT !.pc = "sleep", !.last_exc = first]
    ELSE [f EXCEPT !.pc = "done", !.outcome = t, !.cause = cause]

\* wrapper, lines 49-65: fn raised an exception of type t (chained to
\* `cause`).  A retryable one is remembered; on the last attempt the loop
\* breaks and GraphConnectionError is raised from it, otherwise the wrapper
\* goes to sleep.  Any other exception leaves the wrapper as it is.
OnRaise(f, t, cause) ==
    IF _RETRYABLE_EXCEPTIONS(t)
    THEN IF f.attempt = f.policy.max_attempts
         THEN [f EXCEPT !.pc = "done", !.outcome = "GraphConnectionError",
                        !.last_exc = [type |-> t, at |-> f.attempt],
                        !.cause = [type |-> t, at |-> f.attempt]]
         ELSE [f EXCEPT !.pc = "sleep", !.last_exc = [type |-> t, at |-> f.attempt]]
    ELSE [f EXCEPT !.pc = "done", !.outcome = t, !.cause = cause]

\* A mutant of AfterSleep: the delay is not multiplied.
AfterSleepConstant(f) ==
    [f EXCEPT !.pc = "attempt", !.sleeps = Append(f.sleeps, f.delay),
              !.attempt = f.attempt + 1]

\* wrapper, lines 60-61 and the loop's next turn: sleep, grow the delay.
AfterSleep(f) ==
    [f EXCEPT !.pc = "attempt", !.sleeps = Append(f.sleeps, f.delay),
              !.delay = f.delay * f.policy.backoff_factor,
              !.attempt = f.attempt + 1]

\* Bookkeeping of the model, not of the code: fn is entered once more, and
\* its invocation ended with what the store (or the driver property) did.
Invoke(f) == [f EXCEPT !.invoked = f.invoked + 1]
Note(f, e) == [f EXCEPT !.trace = Append(f.trace, e)]

ThisExc(f, t) == [type |-> t, at |-> f.attempt]

(***************************************************************************)
(* graph/connection.py: Neo4jConnection.                                   *)
(***************************************************************************)

\* A mutant of close: the handle is dropped without closing the driver.
closeLeaky(d, cl) == [driver |-> 0, closedD |-> cl]

\* close(): closes the driver held, if any, and forgets it.  The result is
\* the new handle and the new set of closed drivers.
close(d, cl) ==
    IF d # 0 THEN [driver |-> 0, closedD |-> cl \cup {d}]
    ELSE [driver |-> d, closedD |-> cl]

InitConn ==
    /\ driver = 0
    /\ made = 0
    /\ closedD = {}
    /\ verifiedD = {}
    /\ sessions = <<>>
    /\ ncalls = 0
    /\ call = IdleFrame

Quiet == call.pc \in {"idle", "done"}

\* A caller enters one of the wrapped methods (or a wrapped operation fn).
Begin(op, p) ==
    /\ Quiet
    /\ ncalls < MaxCalls
    /\ ncalls' = ncalls + 1
    /\ call' = NewFrame(op, p, ncalls + 1, driver, made, closedD)
    /\ UNCHANGED <<driver, made, closedD, verifiedD, sessions>>
    /\ UNCHANGED storeVars

\* An attempt of an arbitrary wrapped operation: it returns, or raises e.
FnAttempt(e) ==
    /\ call.pc = "attempt"
    /\ call.op = "fn"
    /\ call' = IF e = "ok" THEN OnReturn(Note(Invoke(call), e))
               ELSE OnRaise(Note(Invoke(call), e), e, NoExc)
    /\ UNCHANGED <<driver, made, closedD, verifiedD, sessions, ncalls>>
    /\ UNCHANGED storeVars

\* connect(), lines 97-111: nothing to do when a driver is held; otherwise
\* GraphDatabase.driver() either raises (a malformed URI: the handle stays
\* None, close() has nothing to close, the exception is re-raised) or
\* returns a driver, which is stored before it is verified.
ConnectCreate(e) ==
    /\ call.pc = "attempt"
    /\ call.op = "connect"
    /\ IF driver # 0
       THEN /\ call' = OnReturn(Note(Invoke(call), "held"))
            /\ UNCHANGED <<driver, made>>
       ELSE IF e = "ok"
       THEN /\ made' = made + 1
            /\ driver' = made + 1
            /\ call' = [Invoke(call) EXCEPT !.pc = "verifying"]
       ELSE /\ call' = OnRaise(Note(Invoke(call), e), e, NoExc)
            /\ UNCHANGED <<driver, made>>
    /\ UNCHANGED <<closedD, verifiedD, sessions, ncalls>>
    /\ UNCHANGED storeVars

\* connect(), lines 112-120: verify_connectivity() returns, or raises e;
\* on AuthError the driver is closed and GraphConnectionError raised from
\* it, on any other exception the driver is closed and e re-raised.
ConnectVerify(e) ==
    /\ call.pc = "verifying"
    /\ IF e = "ok"
       THEN /\ verifiedD' = verifiedD \cup {driver}
            /\ call' = OnReturn(Note(call, e))
            /\ UNCHANGED <<driver, closedD>>
       ELSE /\ driver' = close(driver, closedD).driver
            /\ closedD' = close(driver, closedD).closedD
            /\ call' = IF e = "AuthError"
                       THEN OnRaise(Note(call, e), "GraphConnectionError", ThisExc(call, e))
                       ELSE OnRaise(Note(call, e), e, NoExc)
            /\ UNCHANGED verifiedD
    /\ UNCHANGED <<made, sessions, ncalls>>
    /\ UNCHANGED storeVars

\* close() called by the caller, between two calls.
Close ==
    /\ Quiet
    /\ ncalls < MaxCalls
    /\ ncalls' = ncalls + 1
    /\ driver' = close(driver, closedD).driver
    /\ closedD' = close(driver, closedD).closedD
    /\ call' = [IdleFrame EXCEPT !.op = "close", !.pc = "done", !.outcome = "return",
                                 !.id = ncalls + 1, !.d0 = driver, !.made0 = made,
                                 !.closed0 = closedD]
    /\ UNCHANGED <<made, verifiedD, sessions>>
    /\ UNCHANGED storeVars

\* A mutant of session_enter: the manager hands out the session it opened
\* last instead of a new one.
session_enterReuse(ss, who) ==
    IF ss = <<>> THEN Append(ss, [open |-> TRUE, opener |-> who, users |-> {}])
    ELSE [ss EXCEPT ![Len(ss)].open = TRUE]

\* session(), line 154: a new session of the driver, opened by the
\* attempt `who` (<<call, attempt>>).
session_enter(ss, who) == Append(ss, [open |-> TRUE, opener |-> who, users |-> {}])

\* A mutant of session_exit: the session is closed only when the block
\* ends without an exception.
session_exitOnSuccess(ss, s, who, e) ==
    [ss EXCEPT ![s].users = @ \cup {who}, ![s].open = (e # "ok")]

\* session(), lines 155-158, around the transaction of `who`: the block
\* runs on session s and the session is closed however the block ends (e).
session_exit(ss, s, who, e) ==
    [ss EXCEPT ![s].users = @ \cup {who}, ![s].open = FALSE]

\* execute_read / execute_write, lines 172-173 and 190-191: entering
\* `with self.session()`.  The driver property raises GraphConnectionError
\* when no driver is held; it is neither retryable nor a ClientError.
ExecEnter ==
    /\ call.pc = "attempt"
    /\ call.op \in {"execute_read", "execute_write"}
    /\ IF driver = 0
       THEN /\ call' = OnRaise(Note(Invoke(call), "NotConnected"),
                                "GraphConnectionError", NoExc)
            /\ UNCHANGED sessions
       ELSE /\ sessions' = session_enter(sessions, <<call.id, call.attempt>>)
            /\ call' = [Invoke(call) EXCEPT
                           !.pc = "in_session",
                           !.session = Len(session_enter(sessions, <<call.id, call.attempt>>))]
    /\ UNCHANGED <<driver, made, closedD, verifiedD, ncalls>>
    /\ UNCHANGED storeVars

\* execute_read / execute_write, lines 174-176 and 192-194: the managed
\* transaction returns its records or raises e; the session is closed; a
\* ClientError becomes QueryError.
ExecRun(e) ==
    /\ call.pc = "in_session"
    /\ sessions' = session_exit(sessions, call.session, <<call.id, call.attempt>>, e)
    /\ call' = IF e = "ok" THEN OnReturn(Note(call, e))
               ELSE IF e \in ClientErrorTypes
               THEN OnRaise(Note(call, e), "QueryError", ThisExc(call, e))
               ELSE OnRaise(Note(call, e), e, NoExc)
    /\ UNCHANGED <<driver, made, closedD, verifiedD, ncalls>>
    /\ UNCHANGED storeVars

\* wrapper, line 60: time.sleep(delay) between two attempts.
Sleep ==
    /\ call.pc = "sleep"
    /\ call' = AfterSleep(call)
    /\ UNCHANGED <<driver, made, closedD, verifiedD, sessions, ncalls>>
    /\ UNCHANGED storeVars

(***************************************************************************)
(* The property graph store, as the repository's queries use it.           *)
(* A node is [id, labels, props]; a relationship is [id, src, tgt, type,   *)
(* props], src and tgt being node ids.  All of an element's properties,    *)
(* the reserved ones (uid, name, weight) included, live in the one map     *)
(* props, as in the store.  description, source and the two timestamps are *)
(* left out of the maps: they are written and read back unchanged.         *)
(***************************************************************************)

Labels == {"Technology", "Company"}
Names == {"Kafka", "Flink"}
RelTypes == {"USES"}
Weights == {1}
UidPool == <<"u1", "u2", "u3", "u4", "u5", "u6", "u7", "u8">>
Null == "<None>"
Marker == "_Node"

EmptyMap == [k \in {} |-> Null]

Restrict(f, S) == [k \in S |-> f[k]]

\* Values are strings, but for the numeric weight, which the model never
\* sends as None.
NumericKeys == {"weight", "created_at"}
IsNull(k, v) == k \notin NumericKeys /\ v = Null

\* Cypher's `SET n += $map`: keys of the map are added or overwritten, the
\* other keys are kept, and a key set to null is removed.
MapMerge(old, new) ==
    LET m == [k \in DOMAIN old \cup DOMAIN new |->
                 IF k \in DOMAIN new THEN new[k] ELSE old[k]]
    IN Restrict(m, {k \in DOMAIN m : ~IsNull(k, m[k])})

HasLabel(n, l) == \E i \in 1..Len(n.labels) : n.labels[i] = l

Has(n, k) == k \in DOMAIN n.props

\* MATCH (n:_Node {uid: $uid})
ByUid(ns, uid) == {n \in ns : HasLabel(n, Marker) /\ Has(n, "uid") /\ n.props.uid = uid}

\* Records come back in the order of the store's ids.
MinId(S) == CHOOSE n \in S : \A m \in S : n.id <= m.id

NodeSystemKeys == {"uid", "name", "description", "source", "created_at", "updated_at"}
RelSystemKeys == {"weight", "source", "created_at", "updated_at"}

(***************************************************************************)
(* graph/repository.py                                                     *)
(***************************************************************************)

\* _map_node: the first label that is not the marker, the reserved
\* properties as fields, the others as the open map.
_map_node(n) ==
    LET ls == SelectSeq(n.labels, LAMBDA l : l # Marker)
    IN [uid |-> n.props.uid,
        label |-> IF ls # <<>> THEN ls[1] ELSE "Unknown",
        name |-> n.props.name,
        properties |-> Restrict(n.props, DOMAIN n.props \ NodeSystemKeys)]

\* _map_relationship, on a record [source_uid, target_uid, rel_type, rel].
_map_relationship(rec) ==
    [source_uid |-> rec.source_uid,
     target_uid |-> rec.target_uid,
     rel_type |-> rec.rel_type,
     weight |-> IF "weight" \in DOMAIN rec.rel THEN rec.rel.weight ELSE 1,
     properties |-> Restrict(rec.rel, DOMAIN rec.rel \ RelSystemKeys)]

\* node_exists: MATCH (n:_Node:`label` {name: $name}) RETURN count(n) > 0
node_exists(ns, label, name) ==
    \E n \in ns : /\ HasLabel(n, Marker)
                  /\ HasLabel(n, label)
                  /\ Has(n, "name")
                  /\ n.props.name = name

\* create_node's query: CREATE (n:_Node:`label` {uid: $uid, name: $name, ...})
\* SET n += $properties
NewNode(id, uid, data) ==
    [id |-> id,
     labels |-> <<Marker, data.label>>,
     props |-> MapMerge([uid |-> uid, name |-> data.name], data.properties)]

\* The store refuses a write that would leave two nodes with one uid while
\* the constraint node_uid_unique is declared (a ClientError).
UidClash(ns, n, c) ==
    c /\ Has(n, "uid") /\ \E m \in ns : m.id # n.id /\ Has(m, "uid") /\ m.props.uid = n.props.uid

HasUidClash(ns) ==
    \E n, m \in ns : n.id # m.id /\ Has(n, "uid") /\ Has(m, "uid") /\ n.props.uid = m.props.uid

\* get_node: the first record of MATCH (n:_Node {uid: $uid}), or None.
get_node(ns, uid) ==
    IF ByUid(ns, uid) = {} THEN [found |-> FALSE]
    ELSE [found |-> TRUE, node |-> _map_node(MinId(ByUid(ns, uid)))]

\* A mutant of delete_node_store: the node's incoming relationships are
\* left behind.
delete_node_storeOutgoingOnly(ns, rs, uid) ==
    LET gone == {n.id : n \in ByUid(ns, uid)}
    IN [nodes |-> {n \in ns : n.id \notin gone},
        rels |-> {r \in rs : r.src \notin gone},
        deleted |-> Cardinality(gone)]

\* A mutant of delete_node_store: DELETE without DETACH, the relationships
\* of the node are left behind.
delete_node_storeKeepRels(ns, rs, uid) ==
    LET gone == {n.id : n \in ByUid(ns, uid)}
    IN [nodes |-> {n \in ns : n.id \notin gone},
        rels |-> rs,
        deleted |-> Cardinality(gone)]

\* delete_node's query: MATCH (n:_Node {uid: $uid}) DETACH DELETE n
\* RETURN count(n) AS deleted
delete_node_store(ns, rs, uid) ==
    LET gone == {n.id : n \in ByUid(ns, uid)}
    IN [nodes |-> {n \in ns : n.id \notin gone},
        rels |-> {r \in rs : r.src \notin gone /\ r.tgt \notin gone},
        deleted |-> Cardinality(gone)]

\* create_relationship's query: MATCH (source ...) MATCH (target ...)
\* CREATE (source)-[r:`rel_type` {weight: $weight, ...}]->(target)
\* SET r += $properties: one relationship per (source, target) row, with
\* ids from `id` on, rows in the order of the store's ids; created_at is
\* the time of the statement, one for all its rows.
PairRank(ns, data, s, t) ==
    Cardinality({p \in ByUid(ns, data.source_uid) \X ByUid(ns, data.target_uid) :
                    p[1].id < s.id \/ (p[1].id = s.id /\ p[2].id < t.id)})

NewRels(ns, data, id) ==
    {[id |-> id + PairRank(ns, data, p[1], p[2]),
      src |-> p[1].id,
      tgt |-> p[2].id,
      type |-> data.rel_type,
      props |-> MapMerge([weight |-> data.weight, created_at |-> id], data.properties)]
        : p \in ByUid(ns, data.source_uid) \X ByUid(ns, data.target_uid)}

NodeById(ns, id) == CHOOSE n \in ns : n.id = id

\* The record RETURNed for relationship r matched from the node `anchor`
\* (bound to `source` in the query) to the node `other` (bound to `target`).
RelRecord(r, anchor, other) ==
    [source_uid |-> anchor.props.uid,
     target_uid |-> other.props.uid,
     rel_type |-> r.type,
     rel |-> r.props]

\* get_relationships without a filter: MATCH (source:_Node {uid: $uid})
\* -[r]-(target:_Node), in either direction.  Each row carries the store's
\* id of its relationship (rid), which the response does not show.
get_relationships(ns, rs, uid) ==
    {[rid |-> r.id,
      rel |-> _map_relationship(
                 RelRecord(r, a, NodeById(ns, IF r.src = a.id THEN r.tgt ELSE r.src)))]
        : <<a, r>> \in {p \in ByUid(ns, uid) \X rs : p[2].src = p[1].id \/ p[2].tgt = p[1].id}}

(***************************************************************************)
(* graph/service.py: every operation is a function of the store and its    *)
(* arguments to the new store, the outcome ("ok" or the exception raised), *)
(* the value returned and the log of the calls made on the connection      *)
(* ("R": execute_read, "W": execute_write).                                *)
(***************************************************************************)

Rd(q, arg) == [kind |-> "R", q |-> q, arg |-> arg]
Wr(q, arg) == [kind |-> "W", q |-> q, arg |-> arg]
NoRet == [none |-> TRUE]

Store == [nodes |-> nodes, rels |-> rels, nextRel |-> nextRel,
          uuids |-> uuids, constraint |-> constraint]

Result(st, op, arg, outcome, ret, log) ==
    [st |-> st, last |-> [op |-> op, arg |-> arg, outcome |-> outcome, ret |-> ret, log |-> log]]

\* A mutant of create_node: the uniqueness check is skipped.
create_nodeUnchecked(st, data) ==
    LET n == NewNode(st.uuids + 1, UidPool[st.uuids + 1], data)
    IN Result([st EXCEPT !.nodes = st.nodes \cup {n}, !.uuids = st.uuids + 1],
              "create_node", data, "ok", _map_node(n),
              <<Rd("node_exists", data.name), Wr("create_node", UidPool[st.uuids + 1])>>)

\* GraphService.create_node over GraphRepository.node_exists / create_node.
create_node(st, data) ==
    IF node_exists(st.nodes, data.label, data.name)
    THEN Result(st, "create_node", data, "DuplicateNodeError", NoRet,
                <<Rd("node_exists", data.name)>>)
    ELSE LET uid == UidPool[st.uuids + 1]
             n == NewNode(st.uuids + 1, uid, data)
             log == <<Rd("node_exists", data.name), Wr("create_node", uid)>>
         IN IF UidClash(st.nodes, n, st.constraint)
            THEN Result([st EXCEPT !.uuids = st.uuids + 1],
                        "create_node", data, "QueryError", NoRet, log)
            ELSE Result([st EXCEPT !.nodes = st.nodes \cup {n},
                                   !.uuids = st.uuids + 1],
                        "create_node", data, "ok", _map_node(n), log)

\* GraphService.get_node
svc_get_node(st, uid) ==
    LET g == get_node(st.nodes, uid)
    IN IF g.found
       THEN Result(st, "get_node", uid, "ok", g.node, <<Rd("get_node", uid)>>)
       ELSE Result(st, "get_node", uid, "NodeNotFoundError", NoRet, <<Rd("get_node", uid)>>)

\* GraphService.delete_node over GraphRepository.delete_node
delete_node(st, uid) ==
    LET d == delete_node_store(st.nodes, st.rels, uid)
    IN IF d.deleted > 0
       THEN Result([st EXCEPT !.nodes = d.nodes, !.rels = d.rels],
                   "delete_node", uid, "ok", TRUE, <<Wr("delete_node", uid)>>)
       ELSE Result(st, "delete_node", uid, "NodeNotFoundError", NoRet,
                   <<Wr("delete_node", uid)>>)

\* A mutant of create_relationship: the target is not looked up before the
\* write.
create_relationshipSourceOnly(st, data) ==
    LET rd1 == Rd("get_node", data.source_uid)
        wr == Wr("create_relationship", data.source_uid)
        new == NewRels(st.nodes, data, st.nextRel)
    IN IF ~get_node(st.nodes, data.source_uid).found
       THEN Result(st, "create_relationship", data, "NodeNotFoundError", NoRet, <<rd1>>)
       ELSE IF new = {}
       THEN Result(st, "create_relationship", data, "NodeNotFoundError", NoRet, <<rd1, wr>>)
       ELSE Result([st EXCEPT !.rels = st.rels \cup new,
                              !.nextRel = st.nextRel + Cardinality(new)],
                   "create_relationship", data, "ok",
                   _map_relationship(
                      LET r == MinId(new)
                      IN RelRecord(r, NodeById(st.nodes, r.src), NodeById(st.nodes, r.tgt))),
                   <<rd1, wr>>)

\* GraphService.create_relationship over GraphRepository.get_node /
\* create_relationship.
create_relationship(st, data) ==
    LET rd1 == Rd("get_node", data.source_uid)
        rd2 == Rd("get_node", data.target_uid)
        wr == Wr("create_relationship", data.source_uid)
        new == NewRels(st.nodes, data, st.nextRel)
    IN IF ~get_node(st.nodes, data.source_uid).found
       THEN Result(st, "create_relationship", data, "NodeNotFoundError", NoRet, <<rd1>>)
       ELSE IF ~get_node(st.nodes, data.target_uid).found
       THEN Result(st, "create_relationship", data, "NodeNotFoundError", NoRet, <<rd1, rd2>>)
       ELSE IF new = {}
       THEN Result(st, "create_relationship", data, "NodeNotFoundError", NoRet,
                   <<rd1, rd2, wr>>)
       ELSE Result([st EXCEPT !.rels = st.rels \cup new,
                              !.nextRel = st.nextRel + Cardinality(new)],
                   "create_relationship", data, "ok",
                   _map_relationship(
                      LET r == MinId(new)
                      IN RelRecord(r, NodeById(st.nodes, r.src), NodeById(st.nodes, r.tgt))),
                   <<rd1, rd2, wr>>)

\* GraphService.get_relationships (no filter)
svc_get_relationships(st, uid) ==
    IF ~get_node(st.nodes, uid).found
    THEN Result(st, "get_relationships", uid, "NodeNotFoundError", NoRet,
                <<Rd("get_node", uid)>>)
    ELSE Result(st, "get_relationships", uid, "ok",
                get_relationships(st.nodes, st.rels, uid),
                <<Rd("get_node", uid), Rd("get_relationships", uid)>>)

\* GraphService.init_schema: CREATE CONSTRAINT node_uid_unique IF NOT EXISTS
\* (refused by the store while two nodes share a uid), then the two indexes.
init_schema(st) ==
    IF ~st.constraint /\ HasUidClash(st.nodes)
    THEN Result(st, "init_schema", "", "QueryError", NoRet, <<Wr("constraint", "")>>)
    ELSE Result([st EXCEPT !.constraint = TRUE], "init_schema", "", "ok", NoRet,
                <<Wr("constraint", ""), Wr("index", "name"), Wr("index", "source")>>)

\* The two concurrent callers, neither of which has called yet.
Procs == {1, 2}

IdleProc ==
    [pc |-> "idle", data |-> NoRet, outcome |-> "none", ret |-> NoRet,
     checkAt |-> 0, writeAt |-> 0]

InitProcs == procs = [p \in Procs |-> IdleProc]

InitStore ==
    /\ InitProcs
    /\ nodes = {}
    /\ rels = {}
    /\ nextRel = 1
    /\ uuids = 0
    /\ constraint = FALSE
    /\ last = [op |-> "none", arg |-> "", outcome |-> "none", ret |-> NoRet, log |-> <<>>]

\* The step of the service that has the result res.
Apply(res) ==
    /\ nodes' = res.st.nodes
    /\ rels' = res.st.rels
    /\ nextRel' = res.st.nextRel
    /\ uuids' = res.st.uuids
    /\ constraint' = res.st.constraint
    /\ last' = res.last
    /\ UNCHANGED procs
    /\ UNCHANGED connVars

\* The uids a caller can name: those of the nodes it has seen, and one that
\* no node has.
KnownUids == {n.props.uid : n \in nodes} \cup {"u0"}

\* The properties a caller sends with a new node: none, or one of the
\* reserved keys (a name, or the uid of a node it has seen).
NodeProperties ==
    {EmptyMap, [name |-> "Flink"]} \cup {[uid |-> n.props.uid] : n \in nodes}

NodeCreates == [label : Labels, name : Names, properties : NodeProperties]

RelationshipCreates ==
    [source_uid : KnownUids, target_uid : KnownUids, rel_type : RelTypes,
     weight : Weights, properties : {EmptyMap}]

InitSchema == \E st \in {Store} : Apply(init_schema(st))

CreateNode ==
    /\ uuids < MaxNodes
    /\ \E data \in NodeCreates : Apply(create_node(Store, data))

GetNode == \E uid \in KnownUids : Apply(svc_get_node(Store, uid))

DeleteNode == \E uid \in KnownUids : Apply(delete_node(Store, uid))

CreateRelationship ==
    /\ nextRel <= MaxRels
    /\ \E data \in RelationshipCreates : Apply(create_relationship(Store, data))

GetRelationships == \E uid \in KnownUids : Apply(svc_get_relationships(Store, uid))

Next ==
    \/ InitSchema
    \/ CreateNode
    \/ GetNode
    \/ DeleteNode
    \/ CreateRelationship
    \/ GetRelationships

NextConn ==
    \/ \E op \in Ops : \E p \in PolicyOf(op) : Begin(op, p)
    \/ \E e \in {"ok"} \cup Excs : FnAttempt(e)
    \/ \E e \in {"ok", "ValueError"} : ConnectCreate(e)
    \/ \E e \in {"ok"} \cup Excs : ConnectVerify(e)
    \/ Close
    \/ ExecEnter
    \/ \E e \in {"ok"} \cup Excs : ExecRun(e)
    \/ Sleep

Init == InitConn /\ InitStore

Spec == Init /\ [][Next]_vars

SpecConn == Init /\ [][NextConn]_vars

(***************************************************************************)
(* Claims about the retry policy and the connection manager (SpecConn).    *)
(***************************************************************************)

Last(q) == q[Len(q)]

AllRetryable(tr) == \A i \in 1..Len(tr) : tr[i] \in RetryableTypes

Done == call.pc = "done"

ExecOps == {"execute_read", "execute_write"}

\* C3: a wrapped operation that raises a retryable error on its first two
\* invocations and returns on the third, under a policy with max_attempts =
\* 3, has been invoked exactly three times; the call returns the third
\* invocation's result after exactly two sleeps, of base_delay and then
\* base_delay * backoff_factor (the second strictly longer when the factor
\* exceeds 1).
C3_RetryEventualSuccess ==
    ( /\ call.policy.max_attempts = 3
      /\ Len(call.trace) = 3
      /\ call.trace[1] \in RetryableTypes
      /\ call.trace[2] \in RetryableTypes
      /\ call.trace[3] = "ok" )
    => /\ Done
       /\ call.outcome = "return"
       /\ call.invoked = 3
       /\ call.result = 3
       /\ call.sleeps = <<call.policy.base_delay,
                          call.policy.base_delay * call.policy.backoff_factor>>
       /\ (call.policy.backoff_factor > 1 => call.sleeps[2] > call.sleeps[1])

C3_Witness ==
    /\ Done
    /\ call.op = "fn"
    /\ call.policy.max_attempts = 3
    /\ call.policy.backoff_factor = 2
    /\ call.outcome = "return"
    /\ call.invoked = 3
    /\ Len(call.sleeps) = 2

\* C4: while a wrapped operation has raised a retryable error on every
\* invocation, it is invoked at most max_attempts times with at most
\* max_attempts - 1 sleeps; the call ends only after exactly max_attempts
\* invocations and max_attempts - 1 sleeps, raising GraphConnectionError
\* whose cause is the error of the last attempt.
C4_RetryExhaustion ==
    (call.trace # <<>> /\ AllRetryable(call.trace))
    => /\ call.invoked <= call.policy.max_attempts
       /\ Len(call.sleeps) <= call.policy.max_attempts - 1
       /\ Len(call.sleeps) \in {Len(call.trace) - 1, Len(call.trace)}
       /\ Done =>
            /\ call.invoked = call.policy.max_attempts
            /\ Len(call.trace) = call.policy.max_attempts
            /\ Len(call.sleeps) = call.policy.max_attempts - 1
            /\ call.outcome = "GraphConnectionError"
            /\ call.cause = [type |-> Last(call.trace), at |-> call.policy.max_attempts]

C4_Witness ==
    /\ Done
    /\ call.op = "execute_write"
    /\ call.outcome = "GraphConnectionError"
    /\ call.invoked = 3
    /\ Len(call.sleeps) = 2
    /\ AllRetryable(call.trace)

\* C5: when the store raises a client error (malformed query, constraint
\* violation) in an attempt of execute_read / execute_write, the call ends
\* with that attempt: it raises QueryError caused by the client error, the
\* operation is not invoked again and no sleep follows; raised on the first
\* attempt, that is one invocation and no sleep at all.
C5_ClientErrorNotRetried ==
    (call.op \in ExecOps /\ call.trace # <<>> /\ Last(call.trace) \in ClientErrorTypes)
    => /\ Done
       /\ call.outcome = "QueryError"
       /\ call.cause = [type |-> Last(call.trace), at |-> Len(call.trace)]
       /\ call.invoked = Len(call.trace)
       /\ Len(call.sleeps) = Len(call.trace) - 1

C5_Witness ==
    /\ Done
    /\ call.op = "execute_read"
    /\ call.trace = <<"ClientError">>
    /\ call.outcome = "QueryError"
    /\ call.invoked = 1
    /\ call.sleeps = <<>>

\* C6 as stated: connect, execute_read and execute_write raise
\* GraphConnectionError only after max_attempts attempts.
C6_OnlyAfterExhaustion ==
    (Done /\ call.op \in ExecOps \cup {"connect"} /\ call.outcome = "GraphConnectionError")
    => call.invoked >= call.policy.max_attempts

\* C6, amended: connect, execute_read and execute_write raise
\* GraphConnectionError in three cases only: a retryable failure on the
\* last of exactly max_attempts attempts (its cause); an authentication
\* failure in connect, on the very attempt where it happens; a call of
\* execute_read / execute_write on a manager that holds no driver, on the
\* first attempt and without any sleep.
C6_ConnectionErrorCases ==
    (Done /\ call.op \in ExecOps \cup {"connect"} /\ call.outcome = "GraphConnectionError")
    => \/ /\ Last(call.trace) \in RetryableTypes
          /\ call.invoked = call.policy.max_attempts
          /\ Len(call.sleeps) = call.policy.max_attempts - 1
          /\ call.cause = [type |-> Last(call.trace), at |-> call.policy.max_attempts]
       \/ /\ call.op = "connect"
          /\ Last(call.trace) = "AuthError"
          /\ call.invoked = Len(call.trace)
          /\ Len(call.sleeps) = Len(call.trace) - 1
          /\ call.cause = [type |-> "AuthError", at |-> call.invoked]
       \/ /\ call.op \in ExecOps
          /\ call.d0 = 0
          /\ call.trace = <<"NotConnected">>
          /\ call.invoked = 1
          /\ call.sleeps = <<>>

C6_Witness ==
    /\ Done
    /\ call.op = "connect"
    /\ call.outcome = "GraphConnectionError"
    /\ call.trace = <<"ServiceUnavailable", "AuthError">>
    /\ call.invoked = 2

SessionsOf(id) == {s \in 1..Len(sessions) : sessions[s].opener[1] = id}

\* C7: every attempt of execute_read / execute_write that gets a driver
\* opens a session of its own, nobody else runs on it, and it is closed when
\* the attempt ends, however it ends: a session is open only while its
\* attempt is inside the block, so between attempts and between calls no
\* session is open.
C7_SessionsReleased ==
    /\ \A s \in 1..Len(sessions) :
          /\ sessions[s].users \subseteq {sessions[s].opener}
          /\ sessions[s].open =>
                /\ call.pc = "in_session"
                /\ call.session = s
                /\ sessions[s].opener = <<call.id, call.attempt>>
    /\ \A s, t \in 1..Len(sessions) :
          s # t => sessions[s].opener # sessions[t].opener
    /\ call.pc = "in_session" => sessions[call.session].open
    /\ (call.op \in ExecOps /\ call.d0 # 0 /\ call.pc # "in_session")
          => Cardinality(SessionsOf(call.id)) = call.invoked

C7_Witness ==
    /\ Done
    /\ call.op = "execute_write"
    /\ call.outcome = "QueryError"
    /\ call.invoked = 2
    /\ Len(sessions) >= 3
    /\ \A s \in 1..Len(sessions) : ~sessions[s].open /\ sessions[s].users # {}

\* C8: used by one caller at a time, (1) between calls a driver is held
\* only if it was verified and not closed since; (2) connect() on a manager
\* holding a driver makes no driver and changes nothing; (3) a connect()
\* that ends in an error leaves no driver held and every driver it made
\* closed; (4) close() leaves no driver held, closing the one held, and
\* closes nothing when none is held; (5) a connect() that succeeds on a
\* manager holding no driver (at first, or after close()) holds a driver
\* made during that call.
C8_ConnectionStateMachine ==
    /\ (Quiet /\ driver # 0) => (driver \in verifiedD /\ driver \notin closedD)
    /\ (Done /\ call.op = "connect" /\ call.d0 # 0)
          => /\ driver = call.d0
             /\ made = call.made0
             /\ closedD = call.closed0
             /\ call.outcome = "return"
             /\ call.invoked = 1
             /\ call.sleeps = <<>>
    /\ (Done /\ call.op = "connect" /\ call.outcome # "return")
          => /\ driver = 0
             /\ (call.made0 + 1)..made \subseteq closedD
    /\ (Done /\ call.op = "close")
          => /\ driver = 0
             /\ made = call.made0
             /\ closedD = call.closed0 \cup (IF call.d0 # 0 THEN {call.d0} ELSE {})
    /\ (Done /\ call.op = "connect" /\ call.d0 = 0 /\ call.outcome = "return")
          => /\ driver = made
             /\ driver > call.made0
             /\ driver \in verifiedD \ closedD
             /\ (call.made0 + 1)..(made - 1) \subseteq closedD

C8_Witness ==
    /\ Done
    /\ call.op = "connect"
    /\ call.d0 = 0
    /\ call.outcome = "return"
    /\ call.closed0 # {}
    /\ driver = 2

(***************************************************************************)
(* Claims about the domain service (Spec).  Every step of Spec is one      *)
(* service call, which last' describes; the unprimed variables are the     *)
(* store before the call and the primed ones the store after it.           *)
(***************************************************************************)

\* What the service shows of the persisted nodes.
PairHeld(ns, label, name) ==
    \E n \in ns : _map_node(n).label = label /\ _map_node(n).name = name

UidHeld(ns, uid) == \E n \in ns : _map_node(n).uid = uid

NoWrite(log) == \A i \in 1..Len(log) : log[i].kind # "W"

\* C1: createNode with a (label, name) pair that a persisted node holds
\* raises DuplicateNodeError, issues no write and leaves the persisted nodes
\* (and relationships) as they were.
C1_DuplicateRejected ==
    [][ (last'.op = "create_node" /\ PairHeld(nodes, last'.arg.label, last'.arg.name))
        => /\ last'.outcome = "DuplicateNodeError"
           /\ NoWrite(last'.log)
           /\ nodes' = nodes
           /\ rels' = rels ]_vars

C1_Witness ==
    /\ last.op = "create_node"
    /\ last.outcome = "DuplicateNodeError"
    /\ PairHeld(nodes, last.arg.label, last.arg.name)

\* The uids of the nodes created so far: the generated ones and those of
\* the persisted nodes.
UidsSoFar == {UidPool[i] : i \in 1..uuids} \cup {_map_node(n).uid : n \in nodes}

\* C2: createNode with a valid NodeCreate whose (label, name) pair no
\* persisted node holds succeeds, persists exactly one new node and returns
\* the requested label and name with a uid that no node created before has.
C2_FreshCreateSucceeds ==
    [][ (last'.op = "create_node" /\ ~PairHeld(nodes, last'.arg.label, last'.arg.name))
        => /\ last'.outcome = "ok"
           /\ nodes \subseteq nodes'
           /\ Cardinality(nodes' \ nodes) = 1
           /\ last'.ret.label = last'.arg.label
           /\ last'.ret.name = last'.arg.name
           /\ last'.ret.uid \notin UidsSoFar ]_vars

\* C9: createRelationship whose source_uid or target_uid names no
\* persisted node raises NodeNotFoundError and writes nothing: the source
\* is looked up first, the target only if the source exists, and the
\* relationships stay as they were; a write is issued only after both
\* lookups, in that order, have found their nodes.
C9_EndpointsChecked ==
    [][ last'.op = "create_relationship"
        => LET src == last'.arg.source_uid
               tgt == last'.arg.target_uid
           IN /\ (~UidHeld(nodes, src) \/ ~UidHeld(nodes, tgt))
                    => /\ last'.outcome = "NodeNotFoundError"
                       /\ NoWrite(last'.log)
                       /\ rels' = rels
                       /\ nodes' = nodes
                       /\ last'.log = IF ~UidHeld(nodes, src)
                                      THEN <<Rd("get_node", src)>>
                                      ELSE <<Rd("get_node", src), Rd("get_node", tgt)>>
              /\ ~NoWrite(last'.log)
                    => /\ Len(last'.log) = 3
                       /\ last'.log[1] = Rd("get_node", src)
                       /\ last'.log[2] = Rd("get_node", tgt)
                       /\ last'.log[3].kind = "W"
                       /\ UidHeld(nodes, src)
                       /\ UidHeld(nodes, tgt) ]_vars

C9_Witness ==
    /\ last.op = "create_relationship"
    /\ last.outcome = "NodeNotFoundError"
    /\ UidHeld(nodes, last.arg.source_uid)
    /\ ~UidHeld(nodes, last.arg.target_uid)

\* The uids of the two ends of relationship r in the store ns.
EndUids(ns, r) == {NodeById(ns, r.src).props.uid, NodeById(ns, r.tgt).props.uid}

\* C10: deleteNode(uid) on a persisted node issues one write and nothing
\* else, which removes the node and every relationship that has it as
\* source or target, and nothing more; afterwards getNode(uid) raises
\* NodeNotFoundError and getRelationships on either end of a removed
\* relationship raises NodeNotFoundError or returns no row of it.
C10_DeleteNodeDetaches ==
    [][ (last'.op = "delete_node" /\ UidHeld(nodes, last'.arg))
        => LET uid == last'.arg
               gone == {n \in nodes : _map_node(n).uid = uid}
               ids == {n.id : n \in gone}
               after == [Store EXCEPT !.nodes = nodes', !.rels = rels']
           IN /\ last'.outcome = "ok"
              /\ last'.ret = TRUE
              /\ Len(last'.log) = 1
              /\ last'.log[1].kind = "W"
              /\ nodes' = nodes \ gone
              /\ rels' = {r \in rels : r.src \notin ids /\ r.tgt \notin ids}
              /\ svc_get_node(after, uid).last.outcome = "NodeNotFoundError"
              /\ \A r \in rels \ rels' : \A e \in EndUids(nodes, r) :
                    LET g == svc_get_relationships(after, e).last
                    IN \/ g.outcome = "NodeNotFoundError"
                       \/ /\ g.outcome = "ok"
                          /\ \A row \in g.ret : row.rid # r.id ]_vars

C10_Witness ==
    /\ last.op = "delete_node"
    /\ last.outcome = "ok"
    /\ nodes # {}
    /\ rels = {}
    /\ nextRel > 1

(***************************************************************************)
(* Stores with content, for the operations that read or rewrite what       *)
(* earlier calls persisted.  Every one is the outcome of create_node and   *)
(* create_relationship calls (and of deletions): node i was written with   *)
(* the i-th generated uid, relationship j by the j-th create statement,    *)
(* whose time it carries as created_at.                                    *)
(***************************************************************************)
MaxSampleNodes == 2     \* nodes of a store that update and delete work on
MaxSampleRels == 1      \* relationships of such a store

SampleNode(i) ==
    [id |-> i,
     labels |-> <<Marker, IF i \in {1, 2} THEN "Technology" ELSE "Company">>,
     props |-> CASE i = 1 -> [uid |-> UidPool[1], name |-> "Kafka", version |-> "1", lang |-> "java"]
                 [] i = 2 -> [uid |-> UidPool[2], name |-> "Flink", version |-> "2"]
                 [] i = 3 -> [uid |-> UidPool[3], name |-> "Kafka", source |-> "wikidata"]
                 [] OTHER -> [uid |-> UidPool[i], name |-> "Flink", version |-> "1"]]

SampleRel(j) ==
    LET e == CASE j = 1 -> <<1, 2, "USES", 1>>
               [] j = 2 -> <<1, 3, "USES", 2>>
               [] j = 3 -> <<2, 4, "USES", 1>>
               [] j = 4 -> <<3, 1, "OWNS", 1>>
               [] j = 5 -> <<1, 2, "OWNS", 2>>
               [] OTHER -> <<2, 3, "USES", 2>>
    IN [id |-> j, src |-> e[1], tgt |-> e[2], type |-> e[3],
        props |-> IF j = 4 THEN [weight |-> e[4], created_at |-> j, source |-> "wikidata"]
                           ELSE [weight |-> e[4], created_at |-> j]]

SampleRelCount == 6

\* The stores with the first k sample nodes and at most m of the sample
\* relationships among them.
SampleStores(maxN, maxR) ==
    {[nodes |-> {SampleNode(i) : i \in 1..k},
      rels |-> {SampleRel(j) : j \in R},
      nextRel |-> SampleRelCount + 1,
      uuids |-> k,
      constraint |-> c]
        : <<k, R, c>> \in {t \in (1..maxN) \X (SUBSET (1..SampleRelCount)) \X BOOLEAN :
                              /\ Cardinality(t[2]) <= maxR
                              /\ \A j \in t[2] : /\ SampleRel(j).src <= t[1]
                                                 /\ SampleRel(j).tgt <= t[1]}}

InitFrom(stores) ==
    /\ InitProcs
    /\ \E st \in stores :
          /\ nodes = st.nodes
          /\ rels = st.rels
          /\ nextRel = st.nextRel
          /\ uuids = st.uuids
          /\ constraint = st.constraint
    /\ last = [op |-> "none", arg |-> "", outcome |-> "none", ret |-> NoRet, log |-> <<>>]

(***************************************************************************)
(* update_node                                                             *)
(***************************************************************************)

\* NodeUpdate: a field left at None is absent from the record.
NodeUpdates ==
    {[properties |-> p] : p \in {[version |-> "3"], [lang |-> "go"], [version |-> Null],
                                 [name |-> "Kafka"], EmptyMap}}
    \cup {[name |-> "Flink"], [name |-> "Flink", properties |-> [version |-> "3"]]}

\* update_node's SET clauses, applied left to right to one matched node:
\* n.name = $name (when given), n += $properties (when given).
SetNode(n, data) ==
    LET p1 == IF "name" \in DOMAIN data THEN MapMerge(n.props, [name |-> data.name])
                                        ELSE n.props
        p2 == IF "properties" \in DOMAIN data THEN MapMerge(p1, data.properties) ELSE p1
    IN [n EXCEPT !.props = p2]

\* update_node's query: MATCH (n:_Node {uid: $uid}) SET ... RETURN n
update_node_store(ns, uid, data) ==
    {IF n \in ByUid(ns, uid) THEN SetNode(n, data) ELSE n : n \in ns}

\* GraphService.update_node over GraphRepository.update_node
update_node(st, uid, data) ==
    LET arg == [uid |-> uid, data |-> data]
        log == <<Wr("update_node", uid)>>
        hit == ByUid(st.nodes, uid)
        new == update_node_store(st.nodes, uid, data)
    IN IF hit = {}
       THEN Result(st, "update_node", arg, "NodeNotFoundError", NoRet, log)
       ELSE IF st.constraint /\ HasUidClash(new)
       THEN Result(st, "update_node", arg, "QueryError", NoRet, log)
       ELSE Result([st EXCEPT !.nodes = new], "update_node", arg, "ok",
                   _map_node(SetNode(MinId(hit), data)), log)

\* The call under study is the first one on the store drawn.
Fresh == last.op = "none"

UpdateNode ==
    /\ Fresh
    /\ \E uid \in KnownUids : \E data \in NodeUpdates : Apply(update_node(Store, uid, data))

(***************************************************************************)
(* update_relationship, delete_relationship                                *)
(***************************************************************************)

\* A mutant of MatchTriple: the direction of the relationship is not
\* looked at.
MatchTripleEitherWay(ns, rs, s, t, type) ==
    {r \in rs : /\ r.type = type
                /\ \/ /\ NodeById(ns, r.src) \in ByUid(ns, s)
                      /\ NodeById(ns, r.tgt) \in ByUid(ns, t)
                   \/ /\ NodeById(ns, r.src) \in ByUid(ns, t)
                      /\ NodeById(ns, r.tgt) \in ByUid(ns, s)}

\* MATCH (source:_Node {uid: $source_uid})-[r:`rel_type`]->(target:_Node
\* {uid: $target_uid}): the relationships of that type from a node with
\* the one uid to a node with the other.
MatchTriple(ns, rs, s, t, type) ==
    {r \in rs : /\ r.type = type
                /\ NodeById(ns, r.src) \in ByUid(ns, s)
                /\ NodeById(ns, r.tgt) \in ByUid(ns, t)}

\* RelationshipUpdate: a field left at None is absent from the record.
RelationshipUpdates == {[weight |-> 2], [properties |-> [note |-> "x"]]}

UpdateTypes == {"USES", "OWNS"}

\* update_relationship's SET clauses on one matched relationship:
\* r.weight = $weight (when given), r += $properties (when given).
SetRel(r, data) ==
    LET p1 == IF "weight" \in DOMAIN data THEN MapMerge(r.props, [weight |-> data.weight])
                                          ELSE r.props
        p2 == IF "properties" \in DOMAIN data THEN MapMerge(p1, data.properties) ELSE p1
    IN [r EXCEPT !.props = p2]

\* GraphService.update_relationship over GraphRepository.update_relationship
update_relationship(st, s, t, type, data) ==
    LET arg == [source_uid |-> s, target_uid |-> t, rel_type |-> type, data |-> data]
        log == <<Wr("update_relationship", s)>>
        hit == MatchTriple(st.nodes, st.rels, s, t, type)
    IN IF hit = {}
       THEN Result(st, "update_relationship", arg, "RelationshipNotFoundError", NoRet, log)
       ELSE Result([st EXCEPT !.rels = {IF r \in hit THEN SetRel(r, data) ELSE r : r \in st.rels}],
                   "update_relationship", arg, "ok",
                   _map_relationship(
                      LET r == SetRel(MinId(hit), data)
                      IN RelRecord(r, NodeById(st.nodes, r.src), NodeById(st.nodes, r.tgt))),
                   log)

\* GraphService.delete_relationship over GraphRepository.delete_relationship
delete_relationship(st, s, t, type) ==
    LET arg == [source_uid |-> s, target_uid |-> t, rel_type |-> type]
        log == <<Wr("delete_relationship", s)>>
        hit == MatchTriple(st.nodes, st.rels, s, t, type)
    IN IF hit = {}
       THEN Result(st, "delete_relationship", arg, "RelationshipNotFoundError", NoRet, log)
       ELSE Result([st EXCEPT !.rels = st.rels \ hit],
                   "delete_relationship", arg, "ok", TRUE, log)

UpdateRelationship ==
    /\ Fresh
    /\ \E s \in KnownUids : \E t \in KnownUids : \E type \in UpdateTypes :
          \E data \in RelationshipUpdates :
             Apply(update_relationship(Store, s, t, type, data))

DeleteRelationship ==
    /\ Fresh
    /\ \E s \in KnownUids : \E t \in KnownUids : \E type \in UpdateTypes :
          Apply(delete_relationship(Store, s, t, type))

(***************************************************************************)
(* get_subgraph: the filters                                               *)
(***************************************************************************)

\* The characters of the names and of the substrings searched for.
Spell ==
    [Kafka |-> <<"K", "a", "f", "k", "a">>,
     Flink |-> <<"F", "l", "i", "n", "k">>,
     ka |-> <<"k", "a">>,
     LINK |-> <<"L", "I", "N", "K">>]

UpperToLower == [K |-> "k", F |-> "f", L |-> "l", I |-> "i", N |-> "n"]

\* Cypher's toLower
toLower(w) ==
    [i \in 1..Len(w) |-> IF w[i] \in DOMAIN UpperToLower THEN UpperToLower[w[i]] ELSE w[i]]

\* Cypher's CONTAINS
Contains(w, part) ==
    \E i \in 0..(Len(w) - Len(part)) : SubSeq(w, i + 1, i + Len(part)) = part

\* A filter or a field left at None.
NoFilter == [none |-> TRUE]
NoBound == -1

\* The node conditions that _get_neighborhood and _get_filtered_subgraph
\* put in their WHERE clause: labels (any of them), name_contains and
\* source; a field that is None or empty adds no condition.
NodeConditions(nf, n) ==
    /\ nf.labels # {} => \E l \in nf.labels : HasLabel(n, l)
    /\ nf.name_contains # Null
          => /\ Has(n, "name")
             /\ Contains(toLower(Spell[n.props.name]), toLower(Spell[nf.name_contains]))
    /\ nf.source # Null => Has(n, "source") /\ n.props.source = nf.source

\* The relationship conditions of the WHERE clause: the weight bounds, and
\* the source when with_source (only _get_neighborhood adds it).
RelConditions(rf, r, with_source) ==
    /\ rf.weight_min # NoBound => "weight" \in DOMAIN r.props /\ r.props.weight >= rf.weight_min
    /\ rf.weight_max # NoBound => "weight" \in DOMAIN r.props /\ r.props.weight <= rf.weight_max
    /\ (with_source /\ rf.source # Null)
          => "source" \in DOMAIN r.props /\ r.props.source = rf.source

\* rel_type_filter, in the pattern -[:T1|T2 ...]-
TypeMatches(rf, r) == rf = NoFilter \/ rf.rel_types = {} \/ r.type \in rf.rel_types

\* The maps that the two queries collect DISTINCT: the node with its labels
\* and properties, the relationship with its ends' uids, type and properties.
NodeRow(n) ==
    [uid |-> IF Has(n, "uid") THEN n.props.uid ELSE Null,
     name |-> IF Has(n, "name") THEN n.props.name ELSE Null,
     labels |-> SelectSeq(n.labels, LAMBDA l : l # Marker),
     props |-> n.props]

RelRow(ns, r) == RelRecord(r, NodeById(ns, r.src), NodeById(ns, r.tgt))

\* _build_subgraph_response, on the record [unique_nodes, unique_rels];
\* each entry keeps the row it was built from.
_build_subgraph_response(unique_nodes, unique_rels) ==
    LET ns == {[row |-> u,
                node |-> [uid |-> u.uid,
                          label |-> IF u.labels # <<>> THEN u.labels[1] ELSE "Unknown",
                          name |-> u.name,
                          properties |-> Restrict(u.props, DOMAIN u.props \ NodeSystemKeys)]]
                  : u \in unique_nodes}
        rs == {[row |-> u, rel |-> _map_relationship(u)] : u \in unique_rels}
    IN [nodes |-> ns, relationships |-> rs,
        total_nodes |-> Cardinality(ns), total_relationships |-> Cardinality(rs)]

\* SubgraphResponse(): what the query's empty record list is mapped to.
EmptySubgraph == _build_subgraph_response({}, {})

(***************************************************************************)
(* get_subgraph: the two queries                                           *)
(***************************************************************************)

\* A path is [ns, rs]: the ids of its nodes, the center first, and of its
\* relationships.  The pattern (center)-[:types*1..depth]-(m) walks a
\* relationship in either direction and never twice in one path.
PathTip(p) == p.ns[Len(p.ns)]

OtherEnd(r, id) == IF r.src = id THEN r.tgt ELSE r.src

RECURSIVE PathsOfLen(_, _, _, _)
PathsOfLen(rs, rf, c, k) ==
    IF k = 0 THEN {[ns |-> <<c.id>>, rs |-> <<>>]}
    ELSE {[ns |-> Append(q[1].ns, OtherEnd(q[2], PathTip(q[1]))),
           rs |-> Append(q[1].rs, q[2].id)]
            : q \in {t \in PathsOfLen(rs, rf, c, k - 1) \X rs :
                        /\ \A i \in 1..Len(t[1].rs) : t[1].rs[i] # t[2].id
                        /\ (t[2].src = PathTip(t[1]) \/ t[2].tgt = PathTip(t[1]))
                        /\ TypeMatches(rf, t[2])}}

RelById(rs, id) == CHOOSE r \in rs : r.id = id

\* The WHERE clause of _get_neighborhood: the node conditions on every node
\* of the path but the first, the relationship conditions on every
\* relationship of the path.  The conditions built from properties_match
\* are appended to node_conditions after that list was joined into the
\* clause, and are in no clause.
PathConditions(ns, rs, sg, p) ==
    /\ sg.node_filter # NoFilter
          => \A i \in 2..Len(p.ns) : NodeConditions(sg.node_filter, NodeById(ns, p.ns[i]))
    /\ sg.rel_filter # NoFilter
          => \A i \in 1..Len(p.rs) : RelConditions(sg.rel_filter, RelById(rs, p.rs[i]), TRUE)

\* The rows of MATCH (center:_Node {uid}) MATCH path = (center)-[*1..depth]-(m:_Node)
\* WHERE ...: one per path.
NeighborhoodPaths(ns, rs, sg) ==
    {p \in UNION {PathsOfLen(rs, sg.rel_filter, c, k)
                     : <<c, k>> \in ByUid(ns, sg.center_uid) \X (1..sg.depth)} :
        /\ HasLabel(NodeById(ns, PathTip(p)), Marker)
        /\ PathConditions(ns, rs, sg, p)}

\* LIMIT n on rows that no ORDER BY has sorted keeps any n of them.
Limited(rows, n) ==
    IF Cardinality(rows) <= n THEN {rows}
    ELSE {K \in SUBSET rows : Cardinality(K) = n}

\* The rest of the query of _get_neighborhood on the rows kept: no row, no
\* record; else center and m of every row, and every relationship of every
\* path, each collected DISTINCT.
NeighborhoodOf(ns, rs, kept) ==
    IF kept = {} THEN EmptySubgraph
    ELSE _build_subgraph_response(
            {NodeRow(NodeById(ns, p.ns[1])) : p \in kept}
               \cup {NodeRow(NodeById(ns, PathTip(p))) : p \in kept},
            {RelRow(ns, RelById(rs, q[1].rs[q[2]]))
               : q \in {t \in kept \X (1..Cardinality(rs)) : t[2] <= Len(t[1].rs)}})

\* _get_neighborhood: the responses the store may give.
_get_neighborhood(ns, rs, sg) ==
    {NeighborhoodOf(ns, rs, kept) : kept \in Limited(NeighborhoodPaths(ns, rs, sg), sg.limit)}

\* _get_filtered_subgraph: MATCH (n:_Node) WHERE <node conditions>, any
\* `limit` of them; OPTIONAL MATCH (n)-[r:types]-(m:_Node) WHERE m IN
\* filtered_nodes AND <weight bounds>.  properties_match and the
\* relationship filter's source are in no clause.
FilteredOf(ns, rs, sg, chosen) ==
    IF chosen = {} THEN EmptySubgraph
    ELSE _build_subgraph_response(
            {NodeRow(n) : n \in chosen},
            {RelRow(ns, r)
               : r \in {x \in rs :
                          /\ TypeMatches(sg.rel_filter, x)
                          /\ NodeById(ns, x.src) \in chosen
                          /\ NodeById(ns, x.tgt) \in chosen
                          /\ sg.rel_filter # NoFilter => RelConditions(sg.rel_filter, x, FALSE)}})

_get_filtered_subgraph(ns, rs, sg) ==
    {FilteredOf(ns, rs, sg, chosen)
        : chosen \in Limited({n \in ns : /\ HasLabel(n, Marker)
                                         /\ sg.node_filter # NoFilter
                                               => NodeConditions(sg.node_filter, n)},
                             sg.limit)}

\* GraphRepository.get_subgraph
get_subgraph(ns, rs, sg) ==
    IF sg.center_uid # Null THEN _get_neighborhood(ns, rs, sg)
    ELSE _get_filtered_subgraph(ns, rs, sg)

\* GraphService.get_subgraph: the results the call may have.
svc_get_subgraph(st, sg) ==
    IF sg.center_uid # Null /\ ~get_node(st.nodes, sg.center_uid).found
    THEN {Result(st, "get_subgraph", sg, "NodeNotFoundError", NoRet,
                 <<Rd("get_node", sg.center_uid)>>)}
    ELSE {Result(st, "get_subgraph", sg, "ok", resp,
                 IF sg.center_uid # Null
                 THEN <<Rd("get_node", sg.center_uid), Rd("get_subgraph", sg.center_uid)>>
                 ELSE <<Rd("get_subgraph", sg.center_uid)>>)
            : resp \in get_subgraph(st.nodes, st.rels, sg)}

MaxSubgraphNodes == 3   \* nodes of a store that get_subgraph reads
MaxSubgraphRels == 3    \* relationships of such a store
MaxDepth == 2           \* largest depth asked for
MaxLimit == 2           \* largest limit asked for that can bind

\* A limit that no store of the model reaches (the default is 100).
AmpleLimit == 100

NodeFilters ==
    {NoFilter}
    \cup {[labels |-> ls, name_contains |-> Null, properties_match |-> EmptyMap, source |-> Null]
            : ls \in {{"Technology"}, {"Technology", "Company"}}}
    \cup {[labels |-> {}, name_contains |-> w, properties_match |-> EmptyMap, source |-> Null]
            : w \in {"ka", "LINK"}}
    \cup {[labels |-> {}, name_contains |-> Null, properties_match |-> [version |-> "1"],
           source |-> Null],
          [labels |-> {}, name_contains |-> Null, properties_match |-> EmptyMap,
           source |-> "wikidata"]}

RelationshipFilters ==
    {NoFilter,
     [rel_types |-> {"USES"}, weight_min |-> NoBound, weight_max |-> NoBound, source |-> Null],
     [rel_types |-> {}, weight_min |-> 2, weight_max |-> NoBound, source |-> Null],
     [rel_types |-> {}, weight_min |-> NoBound, weight_max |-> 1, source |-> Null],
     [rel_types |-> {}, weight_min |-> NoBound, weight_max |-> NoBound, source |-> "wikidata"]}

SubgraphFilters ==
    [node_filter : NodeFilters,
     rel_filter : RelationshipFilters,
     center_uid : KnownUids \cup {Null},
     depth : 1..MaxDepth,
     limit : (1..MaxLimit) \cup {AmpleLimit}]

\* One query on the store drawn: a read leaves the store as it was, and a
\* second query would find it as the first did.
GetSubgraph ==
    /\ last.op = "none"
    /\ \E sg \in SubgraphFilters : \E res \in svc_get_subgraph(Store, sg) : Apply(res)

NextSub == GetSubgraph

InitSub == InitConn /\ InitFrom(SampleStores(MaxSubgraphNodes, MaxSubgraphRels))

SpecSub == InitSub /\ [][NextSub]_vars

(***************************************************************************)
(* Claims about subgraph extraction (SpecSub).                             *)
(***************************************************************************)

\* The ids of the nodes within k relationships of the node c, walking only
\* the relationships of okRels, in either direction, onto the nodes of
\* okIds.
RECURSIVE Ball(_, _, _, _)
Ball(okIds, okRels, c, k) ==
    IF k = 0 THEN {c}
    ELSE LET B == Ball(okIds, okRels, c, k - 1)
         IN B \cup {OtherEnd(q[2], q[1])
                      : q \in {t \in B \X okRels :
                                  /\ (t[2].src = t[1] \/ t[2].tgt = t[1])
                                  /\ OtherEnd(t[2], t[1]) \in okIds}}

\* The relationships of okRels that lie on such a walk of at most k
\* relationships: those with an end within k - 1 of c whose other end may
\* be walked onto.
OnBall(okIds, okRels, c, k) ==
    {r \in okRels : \E id \in Ball(okIds, okRels, c, k - 1) :
                       /\ (r.src = id \/ r.tgt = id)
                       /\ OtherEnd(r, id) \in okIds}

\* All the predicates of a node filter, and of a relationship filter.
NodeFilterHolds(nf, n) ==
    \/ nf = NoFilter
    \/ /\ NodeConditions(nf, n)
       /\ \A k \in DOMAIN nf.properties_match :
             Has(n, k) /\ n.props[k] = nf.properties_match[k]

RelFilterHolds(rf, r) ==
    \/ rf = NoFilter
    \/ /\ TypeMatches(rf, r)
       /\ RelConditions(rf, r, TRUE)

NeighborhoodCall ==
    /\ last.op = "get_subgraph"
    /\ last.arg.center_uid # Null
    /\ UidHeld(nodes, last.arg.center_uid)

Center == MinId(ByUid(nodes, last.arg.center_uid))

ReturnedUids == {e.node.uid : e \in last.ret.nodes}

\* C12: neighborhood extraction without filters and with a limit that does
\* not bind returns exactly the center and the nodes within 1..depth
\* relationships of it (none at distance 2 when depth is 1), and exactly
\* the relationships on those paths; a center with two outgoing
\* relationships to B and C gives 3 nodes and 2 relationships.
C12_NeighborhoodExact ==
    ( /\ NeighborhoodCall
      /\ last.arg.node_filter = NoFilter
      /\ last.arg.rel_filter = NoFilter
      /\ last.arg.limit = AmpleLimit )
    => LET ids == {n.id : n \in nodes}
           d == last.arg.depth
       IN /\ last.outcome = "ok"
          /\ ReturnedUids = {NodeById(nodes, i).props.uid : i \in Ball(ids, rels, Center.id, d)}
          /\ last.ret.total_nodes = Cardinality(Ball(ids, rels, Center.id, d))
          /\ {e.row : e \in last.ret.relationships}
                = {RelRow(nodes, r) : r \in OnBall(ids, rels, Center.id, d)}
          /\ last.ret.total_relationships = Cardinality(OnBall(ids, rels, Center.id, d))

\* C13: in neighborhood extraction every returned node but the center and
\* every returned relationship satisfies all the predicates of the filters
\* supplied (labels, name substring, source, property matches; types,
\* weight bounds, source), and a node is returned only if a path of nodes
\* and relationships that all satisfy them leads to it.
C13_FiltersOnWholePath ==
    (NeighborhoodCall /\ last.outcome = "ok")
    => LET nf == last.arg.node_filter
           rf == last.arg.rel_filter
           okIds == {n.id : n \in {m \in nodes : NodeFilterHolds(nf, m)}}
           okRels == {r \in rels : RelFilterHolds(rf, r)}
       IN /\ \A e \in last.ret.nodes :
                e.node.uid # last.arg.center_uid
                   => NodeFilterHolds(nf, MinId(ByUid(nodes, e.node.uid)))
          /\ \A e \in last.ret.relationships :
                \E r \in okRels : RelRow(nodes, r) = e.row
          /\ ReturnedUids \subseteq
                {NodeById(nodes, i).props.uid
                    : i \in Ball(okIds, okRels, Center.id, last.arg.depth)}

\* C14: getSubgraph with a center_uid that names a persisted node returns
\* the center among its nodes, whatever the filters and the graph.
C14_CenterAlwaysReturned ==
    NeighborhoodCall
    => /\ last.outcome = "ok"
       /\ last.arg.center_uid \in ReturnedUids

\* C15: in neighborhood mode the response has at most `limit` nodes, the
\* center included, no two of them with one uid, and no relationship twice.
C15_NeighborhoodCapped ==
    (NeighborhoodCall /\ last.outcome = "ok")
    => /\ last.ret.total_nodes <= last.arg.limit
       /\ Cardinality(last.ret.nodes) = last.ret.total_nodes
       /\ Cardinality(ReturnedUids) = last.ret.total_nodes
       /\ Cardinality({e.row : e \in last.ret.relationships}) = last.ret.total_relationships
       /\ \A e \in last.ret.relationships :
             Cardinality({r \in rels : RelRow(nodes, r) = e.row}) = 1

\* C16: filtered-subgraph extraction (no center) returns at most `limit`
\* nodes, all of which satisfy the node filter; nodes that satisfy it are
\* returned (up to the limit) whether or not a relationship that satisfies
\* the relationship filter touches them, with an empty relationship list
\* when none does.
C16_FilteredKeepsIsolated ==
    (last.op = "get_subgraph" /\ last.arg.center_uid = Null)
    => LET nf == last.arg.node_filter
           rf == last.arg.rel_filter
           match == {n \in nodes : NodeFilterHolds(nf, n)}
           chosen == {MinId(ByUid(nodes, u)) : u \in ReturnedUids}
       IN /\ last.outcome = "ok"
          /\ last.ret.total_nodes <= last.arg.limit
          /\ chosen \subseteq match
          /\ last.ret.total_nodes
                = IF Cardinality(match) <= last.arg.limit THEN Cardinality(match)
                                                          ELSE last.arg.limit
          /\ (\A r \in rels : ~( /\ RelFilterHolds(rf, r)
                                 /\ NodeById(nodes, r.src) \in chosen
                                 /\ NodeById(nodes, r.tgt) \in chosen ))
                => last.ret.relationships = {}

(***************************************************************************)
(* The service's single calls on a store with content (SpecUpd).           *)
(***************************************************************************)

FirstGetNode == Fresh /\ GetNode

FirstDeleteNode == Fresh /\ DeleteNode

FirstGetRelationships == Fresh /\ GetRelationships

\* get_subgraph around a center, without filters.
GetNeighborhood ==
    /\ Fresh
    /\ \E uid \in KnownUids : \E d \in 1..MaxDepth :
          \E res \in svc_get_subgraph(Store, [node_filter |-> NoFilter, rel_filter |-> NoFilter,
                                              center_uid |-> uid, depth |-> d,
                                              limit |-> AmpleLimit]) :
             Apply(res)

NextUpd ==
    \/ UpdateNode
    \/ FirstGetNode
    \/ FirstDeleteNode
    \/ FirstGetRelationships
    \/ UpdateRelationship
    \/ DeleteRelationship
    \/ GetNeighborhood

InitUpd == InitConn /\ InitFrom(SampleStores(MaxSampleNodes, MaxSampleRels))

SpecUpd == InitUpd /\ [][NextUpd]_vars

(***************************************************************************)
(* Claims about single calls (SpecUpd).                                    *)
(***************************************************************************)

\* The open-property map of the node that uid names in the store ns.
OpenMap(ns, uid) == _map_node(MinId(ByUid(ns, uid))).properties

\* The union of two maps, the second winning on common keys.
MapUnion(old, new) ==
    [k \in DOMAIN old \cup DOMAIN new |-> IF k \in DOMAIN new THEN new[k] ELSE old[k]]

\* C11: updateNode(uid, data) with a properties payload merges: every
\* open-property key of the node absent from the payload keeps its value,
\* every key of the payload takes the payload's value, no key is removed,
\* and the open-property map returned is the union of the old map and the
\* payload, the payload winning on common keys.
C11_UpdateNodeMerges ==
    [][ ( /\ last'.op = "update_node"
          /\ last'.outcome = "ok"
          /\ "properties" \in DOMAIN last'.arg.data )
        => LET old == OpenMap(nodes, last'.arg.uid)
               pay == last'.arg.data.properties
               new == last'.ret.properties
           IN /\ DOMAIN old \subseteq DOMAIN new
              /\ \A k \in DOMAIN old \ DOMAIN pay : new[k] = old[k]
              /\ \A k \in DOMAIN pay : k \in DOMAIN new /\ new[k] = pay[k]
              /\ new = MapUnion(old, pay)
              /\ new = OpenMap(nodes', last'.arg.uid) ]_vars

\* The store is as the call found it.
StoreUnchanged == nodes' = nodes /\ rels' = rels

\* Whether some relationship of the type runs from a node with uid s to a
\* node with uid t.
TripleHeld(ns, rs, s, t, type) ==
    \E r \in rs : /\ r.type = type
                  /\ \E a \in ns : a.id = r.src /\ _map_node(a).uid = s
                  /\ \E b \in ns : b.id = r.tgt /\ _map_node(b).uid = t

\* C19: a call addressed to a target that does not exist fails with the
\* matching not-found error and leaves the store as it was: updateNode,
\* deleteNode, getNode, getRelationships and getSubgraph with a center_uid
\* raise NodeNotFoundError for an unknown uid (getSubgraph after the lookup
\* of the center only), updateRelationship and deleteRelationship raise
\* RelationshipNotFoundError for an unknown (source, target, type) triple.
C19_NotFound ==
    [][ /\ ( /\ last'.op \in {"update_node"}
             /\ ~UidHeld(nodes, last'.arg.uid) )
           => last'.outcome = "NodeNotFoundError" /\ StoreUnchanged
        /\ ( /\ last'.op \in {"delete_node", "get_node", "get_relationships"}
             /\ ~UidHeld(nodes, last'.arg) )
           => last'.outcome = "NodeNotFoundError" /\ StoreUnchanged
        /\ ( /\ last'.op = "get_subgraph"
             /\ last'.arg.center_uid # Null
             /\ ~UidHeld(nodes, last'.arg.center_uid) )
           => /\ last'.outcome = "NodeNotFoundError"
              /\ StoreUnchanged
              /\ last'.log = <<Rd("get_node", last'.arg.center_uid)>>
        /\ ( /\ last'.op \in {"update_relationship", "delete_relationship"}
             /\ ~TripleHeld(nodes, rels, last'.arg.source_uid, last'.arg.target_uid,
                            last'.arg.rel_type) )
           => last'.outcome = "RelationshipNotFoundError" /\ StoreUnchanged ]_vars

\* A reversed triple is unknown, and was asked for.
C19_Witness ==
    /\ last.op \in {"update_relationship", "delete_relationship"}
    /\ last.outcome = "RelationshipNotFoundError"
    /\ TripleHeld(nodes, rels, last.arg.target_uid, last.arg.source_uid, last.arg.rel_type)
    /\ last.arg.source_uid # last.arg.target_uid

(***************************************************************************)
(* create_nodes_batch, create_relationships_batch                          *)
(***************************************************************************)
MaxBatch == 2           \* items of one batch

\* The calls an item makes on the connection, marked with the item's place
\* in the batch.
Tagged(log, i) ==
    [j \in 1..Len(log) |-> [kind |-> log[j].kind, q |-> log[j].q, arg |-> log[j].arg,
                            item |-> i]]

\* An item that finds the connection down: the first call it makes on the
\* connection raises GraphConnectionError once the retries are exhausted.
ConnectionDown(st, op, data, q, arg) ==
    Result(st, op, data, "GraphConnectionError", NoRet, <<Rd(q, arg)>>)

\* The item at place i of a batch whose item at place `down` (if any)
\* finds the connection down.
NodeItem(st, items, i, down) ==
    IF i = down
    THEN ConnectionDown(st, "create_node", items[i], "node_exists", items[i].name)
    ELSE create_node(st, items[i])

RelItem(st, items, i, down) ==
    IF i = down
    THEN ConnectionDown(st, "create_relationship", items[i], "get_node", items[i].source_uid)
    ELSE create_relationship(st, items[i])

\* A mutant of create_nodes_batch: every exception of an item is caught.
RECURSIVE create_nodes_batchCatchAll(_, _, _, _, _, _)
create_nodes_batchCatchAll(st, items, down, i, created, log) ==
    IF i > Len(items)
    THEN Result(st, "create_nodes_batch", [items |-> items, down |-> down], "ok", created, log)
    ELSE LET r == NodeItem(st, items, i, down)
             lg == log \o Tagged(r.last.log, i)
         IN IF r.last.outcome = "ok"
            THEN create_nodes_batchCatchAll(r.st, items, down, i + 1,
                                            Append(created, r.last.ret), lg)
            ELSE create_nodes_batchCatchAll(r.st, items, down, i + 1, created, lg)

\* GraphService.create_nodes_batch, from item i on: `created` and `log` are
\* the list built and the calls made so far.
RECURSIVE create_nodes_batch(_, _, _, _, _, _)
create_nodes_batch(st, items, down, i, created, log) ==
    IF i > Len(items)
    THEN Result(st, "create_nodes_batch", [items |-> items, down |-> down], "ok", created, log)
    ELSE LET r == NodeItem(st, items, i, down)
             lg == log \o Tagged(r.last.log, i)
         IN IF r.last.outcome = "ok"
            THEN create_nodes_batch(r.st, items, down, i + 1, Append(created, r.last.ret), lg)
            ELSE IF r.last.outcome = "DuplicateNodeError"
            THEN create_nodes_batch(r.st, items, down, i + 1, created, lg)
            ELSE Result(r.st, "create_nodes_batch", [items |-> items, down |-> down],
                        r.last.outcome, NoRet, lg)

\* GraphService.create_relationships_batch, from item i on.
RECURSIVE create_relationships_batch(_, _, _, _, _, _)
create_relationships_batch(st, items, down, i, created, log) ==
    IF i > Len(items)
    THEN Result(st, "create_relationships_batch", [items |-> items, down |-> down], "ok",
                created, log)
    ELSE LET r == RelItem(st, items, i, down)
             lg == log \o Tagged(r.last.log, i)
         IN IF r.last.outcome = "ok"
            THEN create_relationships_batch(r.st, items, down, i + 1,
                                            Append(created, r.last.ret), lg)
            ELSE IF r.last.outcome \in {"NodeNotFoundError", "RelationshipNotFoundError"}
            THEN create_relationships_batch(r.st, items, down, i + 1, created, lg)
            ELSE Result(r.st, "create_relationships_batch", [items |-> items, down |-> down],
                        r.last.outcome, NoRet, lg)

\* The sequences of at most n elements of S.
SeqsUpTo(S, n) == UNION {[1..k -> S] : k \in 0..n}

\* The items of a node batch: a pair, the same pair with a name among its
\* properties, the pair under the other label, and a node that takes the
\* uid of the first sample node.
NodeBatchItems ==
    {[label |-> "Technology", name |-> "Kafka", properties |-> EmptyMap],
     [label |-> "Technology", name |-> "Kafka", properties |-> [name |-> "Flink"]],
     [label |-> "Company", name |-> "Kafka", properties |-> EmptyMap],
     [label |-> "Company", name |-> "Flink", properties |-> [uid |-> UidPool[1]]]}

\* The items of a relationship batch: between the first two sample nodes,
\* either way, and from or to a uid that no node has.
RelBatchItems ==
    {[source_uid |-> p[1], target_uid |-> p[2], rel_type |-> "USES", weight |-> 1,
      properties |-> EmptyMap]
        : p \in {<<UidPool[1], UidPool[2]>>, <<UidPool[2], UidPool[1]>>,
                 <<"u0", UidPool[1]>>, <<UidPool[1], "u0">>}}

CreateNodesBatch ==
    /\ Fresh
    /\ \E items \in SeqsUpTo(NodeBatchItems, MaxBatch) : \E down \in 0..Len(items) :
          Apply(create_nodes_batch(Store, items, down, 1, <<>>, <<>>))

CreateRelationshipsBatch ==
    /\ Fresh
    /\ \E items \in SeqsUpTo(RelBatchItems, MaxBatch) : \E down \in 0..Len(items) :
          Apply(create_relationships_batch(Store, items, down, 1, <<>>, <<>>))

\* The store before any call.
EmptyStore ==
    [nodes |-> {}, rels |-> {}, nextRel |-> 1, uuids |-> 0, constraint |-> FALSE]

NextBatch ==
    \/ CreateNodesBatch
    \/ CreateRelationshipsBatch

InitBatch == InitConn /\ InitFrom(SampleStores(MaxSampleNodes, MaxSampleRels) \cup {EmptyStore})

SpecBatch == InitBatch /\ [][NextBatch]_vars

(***************************************************************************)
(* Claims about the batches (SpecBatch).                                   *)
(***************************************************************************)

BatchOps == {"create_nodes_batch", "create_relationships_batch"}

\* The places of the items that made a call on the connection.
Attempted(log) == {log[j].item : j \in 1..Len(log)}

\* The calls of an item come after those of every item before it.
OneAtATime(log) == \A j \in 1..(Len(log) - 1) : log[j].item <= log[j + 1].item

\* The k-th smallest element of the set E of numbers.
Kth(E, k) == CHOOSE e \in E : Cardinality({x \in E : x < e}) = k - 1

\* The places of the items of a node batch that are to be created: the
\* pair is held by no persisted node and by no item before.
FreshPlaces(ns, items) ==
    {i \in 1..Len(items) :
        /\ ~PairHeld(ns, items[i].label, items[i].name)
        /\ \A j \in 1..(i - 1) : ~( /\ items[j].label = items[i].label
                                    /\ items[j].name = items[i].name )}

\* The places of the items of a relationship batch whose two ends exist.
LinkedPlaces(ns, items) ==
    {i \in 1..Len(items) : /\ UidHeld(ns, items[i].source_uid)
                           /\ UidHeld(ns, items[i].target_uid)}

\* C17: a batch attempts its items one at a time in input order, skips an
\* item that raises DuplicateNodeError (nodes) or a not-found error
\* (relationships) and goes on with the later ones; the list returned
\* holds exactly the items created, in input order, so that a (label,
\* name) pair repeated in a node batch is created once.
C17_BatchSequential ==
    [][ (last'.op \in BatchOps /\ last'.outcome = "ok")
        => LET items == last'.arg.items
               E == IF last'.op = "create_nodes_batch" THEN FreshPlaces(nodes, items)
                                                       ELSE LinkedPlaces(nodes, items)
           IN /\ Attempted(last'.log) = 1..Len(items)
              /\ OneAtATime(last'.log)
              /\ Len(last'.ret) = Cardinality(E)
              /\ last'.op = "create_nodes_batch"
                    => /\ \A k \in 1..Cardinality(E) :
                             /\ last'.ret[k].label = items[Kth(E, k)].label
                             /\ last'.ret[k].name = items[Kth(E, k)].name
                       /\ nodes \subseteq nodes'
                       /\ Cardinality(nodes' \ nodes) = Cardinality(E)
              /\ last'.op = "create_relationships_batch"
                    => /\ \A k \in 1..Cardinality(E) :
                             /\ last'.ret[k].source_uid = items[Kth(E, k)].source_uid
                             /\ last'.ret[k].target_uid = items[Kth(E, k)].target_uid
                       /\ rels \subseteq rels'
                       /\ Cardinality(rels' \ rels) = Cardinality(E) ]_vars

\* C18: an item of a batch that raises another exception than the ones
\* skipped (the connection is down for it: GraphConnectionError; its write
\* is refused by the store: QueryError) ends the batch: the exception
\* reaches the caller and no later item makes a call.
C18_BatchAborts ==
    [][ last'.op \in BatchOps
        => LET items == last'.arg.items
               down == last'.arg.down
               log == last'.log
           IN /\ down # 0
                    => /\ last'.outcome \in {"GraphConnectionError", "QueryError"}
                       /\ \A j \in 1..Len(log) : log[j].item <= down
              /\ last'.outcome # "ok"
                    => /\ last'.outcome \in {"GraphConnectionError", "QueryError"}
                       /\ last'.ret = NoRet
                       /\ OneAtATime(log)
                       /\ Attempted(log) = 1..Last(log).item
                       /\ last'.outcome = "GraphConnectionError"
                             => Last(log).item = down /\ Last(log).kind = "R"
                       /\ last'.outcome = "QueryError"
                             => /\ Last(log).kind = "W"
                                /\ constraint
                                /\ "uid" \in DOMAIN items[Last(log).item].properties ]_vars

C18_Witness ==
    /\ last.op \in BatchOps
    /\ last.outcome = "GraphConnectionError"
    /\ last.arg.down = 1
    /\ Len(last.arg.items) > 1
    /\ Attempted(last.log) = {1}

(***************************************************************************)
(* create_node called by two callers at once (SpecRace): the existence     *)
(* check and the write of a call are two transactions on the store, and    *)
(* the transactions of the two calls interleave in any order.              *)
(***************************************************************************)

RaceCreates == [label : Labels, name : Names, properties : {EmptyMap, [name |-> "Flink"]}]

\* The number of the transaction about to run, counting those of both
\* calls from 1.
Tick ==
    1 + Cardinality({p \in Procs : procs[p].checkAt > 0})
      + Cardinality({p \in Procs : procs[p].writeAt > 0})

\* GraphService.create_node, lines 35-39: node_exists, and the raise when
\* the pair is held.
RaceCheck(p) ==
    /\ procs[p].pc = "idle"
    /\ \E data \in RaceCreates :
          LET held == node_exists(nodes, data.label, data.name)
          IN procs' = [procs EXCEPT ![p] =
                          [pc |-> IF held THEN "done" ELSE "checked",
                           data |-> data,
                           outcome |-> IF held THEN "DuplicateNodeError" ELSE "none",
                           ret |-> NoRet,
                           checkAt |-> Tick,
                           writeAt |-> 0]]
    /\ UNCHANGED <<nodes, rels, nextRel, uuids, constraint, last>>
    /\ UNCHANGED connVars

\* GraphService.create_node, line 41: GraphRepository.create_node.
RaceWrite(p) ==
    /\ procs[p].pc = "checked"
    /\ LET n == NewNode(uuids + 1, UidPool[uuids + 1], procs[p].data)
           refused == UidClash(nodes, n, constraint)
       IN /\ nodes' = IF refused THEN nodes ELSE nodes \cup {n}
          /\ procs' = [procs EXCEPT ![p] =
                          [@ EXCEPT !.pc = "done",
                                    !.outcome = IF refused THEN "QueryError" ELSE "ok",
                                    !.ret = IF refused THEN NoRet ELSE _map_node(n),
                                    !.writeAt = Tick]]
    /\ uuids' = uuids + 1
    /\ UNCHANGED <<rels, nextRel, constraint, last>>
    /\ UNCHANGED connVars

NextRace ==
    \/ \E p \in Procs : RaceCheck(p)
    \/ \E p \in Procs : RaceWrite(p)

SpecRace == Init /\ [][NextRace]_vars

(***************************************************************************)
(* Claim about concurrent calls (SpecRace).                                *)
(***************************************************************************)

BothDone == \A p \in Procs : procs[p].pc = "done"

SamePair ==
    \A p, q \in Procs : /\ procs[p].data.label = procs[q].data.label
                        /\ procs[p].data.name = procs[q].data.name

\* Both checks ran before either write.
Interleaved ==
    \A p, q \in Procs : procs[p].writeAt = 0 \/ procs[q].checkAt < procs[p].writeAt

\* One call was over before the other began.
NonOverlapping ==
    \E p, q \in Procs :
       /\ p # q
       /\ procs[p].checkAt < procs[q].checkAt
       /\ procs[p].writeAt < procs[q].checkAt

\* C20: the uniqueness check of createNode is not atomic with the write:
\* of two calls for the same fresh (label, name) pair whose checks both run
\* before either write, both succeed and two nodes with the pair are
\* persisted; when the calls do not overlap, exactly one succeeds and the
\* other raises DuplicateNodeError.
C20_CheckThenCreateRace ==
    (BothDone /\ SamePair)
    => LET pair == procs[1].data
           ok == {p \in Procs : procs[p].outcome = "ok"}
           dup == {p \in Procs : procs[p].outcome = "DuplicateNodeError"}
       IN /\ Interleaved
             => /\ ok = Procs
                /\ Cardinality({n \in nodes : /\ _map_node(n).label = pair.label
                                              /\ _map_node(n).name = pair.name}) = 2
          /\ NonOverlapping
             => /\ Cardinality(ok) = 1
                /\ Cardinality(dup) = 1

(***************************************************************************)
(* Invariants of the persisted nodes and relationships.                    *)
(***************************************************************************)

\* C22: however createNode, updateNode, deleteNode and the batches are
\* called with valid payloads (any open properties map), no two persisted
\* nodes share a uid, and the uid of a persisted node is the one generated
\* at its creation.
C22_UidUniqueImmutable ==
    /\ \A n, m \in nodes : n.id # m.id => _map_node(n).uid # _map_node(m).uid
    /\ \A n \in nodes : _map_node(n).uid = UidPool[n.id]

\* C26: every RelationshipResponse of getRelationships(uid) carries the
\* (source_uid, target_uid, rel_type) triple of a persisted relationship in
\* its stored direction, whether uid is its source or its target, and a
\* persisted relationship incident to uid appears at most once.
C26_StoredDirection ==
    (last.op = "get_relationships" /\ last.outcome = "ok")
    => /\ \A row \in last.ret :
             \E r \in rels :
                /\ r.id = row.rid
                /\ row.rel.source_uid = _map_node(NodeById(nodes, r.src)).uid
                /\ row.rel.target_uid = _map_node(NodeById(nodes, r.tgt)).uid
                /\ row.rel.rel_type = r.type
       /\ \A r \in rels : Cardinality({row \in last.ret : row.rid = r.id}) <= 1

\* C30: however createNode, updateNode, deleteNode and createNodesBatch are
\* called one after the other, no two persisted nodes have the same
\* (label, name) pair.
C30_PairUnique ==
    \A n, m \in nodes :
       n.id # m.id => ~( /\ _map_node(n).label = _map_node(m).label
                         /\ _map_node(n).name = _map_node(m).name )

(***************************************************************************)
(* The model layer's validation and the text of the queries (SpecQuery).   *)
(* A string is the sequence of its characters; the text of a query is a    *)
(* sequence of fragments: text written in the source, a caller's string    *)
(* put in the text by an f-string, or a caller's number put in the text.   *)
(* <bt> stands for the backtick character.                                 *)
(***************************************************************************)

IdentMaxLength == 100
LimitMin == 1
LimitMax == 10000
OffsetMin == 0
DepthMin == 1
DepthMax == 10

MaxIdents == 2

UpperLetters == {"T", "U", "S", "E", "X", "C", "H", "K"}

LowerToUpper == [t |-> "T", e |-> "E", c |-> "C", h |-> "H", k |-> "K"]

\* str.upper
upper(v) ==
    [i \in 1..Len(v) |-> IF v[i] \in DOMAIN LowerToUpper THEN LowerToUpper[v[i]] ELSE v[i]]

\* str.isupper, on one character
isupper(c) == c \in UpperLetters

\* NodeCreate.label: min_length, max_length, then label_must_be_pascal_case
label_must_be_pascal_case(v) ==
    /\ Len(v) >= 1
    /\ Len(v) <= IdentMaxLength
    /\ isupper(v[1])

\* RelationshipCreate.rel_type: min_length, max_length, then
\* rel_type_must_be_upper_snake
rel_type_must_be_upper_snake(v) ==
    /\ Len(v) >= 1
    /\ Len(v) <= IdentMaxLength
    /\ v = upper(v)
    /\ \A i \in 1..Len(v) : v[i] # " "

\* NodeFilter and RelationshipFilter: limit and offset are the only
\* constrained fields that the queries below use.
PageValid(f) ==
    /\ f.limit >= LimitMin
    /\ f.limit <= LimitMax
    /\ f.offset >= OffsetMin

\* SubgraphFilter: depth and limit.
SubgraphFilterValid(sg) ==
    /\ sg.depth >= DepthMin
    /\ sg.depth <= DepthMax
    /\ sg.limit >= LimitMin
    /\ sg.limit <= LimitMax

Lit(s) == [kind |-> "text", text |-> s, word |-> <<>>, num |-> 0]
Id(w) == [kind |-> "identifier", text |-> "", word |-> w, num |-> 0]
Num(n) == [kind |-> "number", text |-> "", word |-> <<>>, num |-> n]

Query(text, params) == [text |-> text, params |-> params]

\* sep.join(parts), each part a sequence of fragments
RECURSIVE Join(_, _)
Join(parts, sep) ==
    IF parts = <<>> THEN <<>>
    ELSE IF Len(parts) = 1 THEN parts[1]
    ELSE parts[1] \o <<Lit(sep)>> \o Join(Tail(parts), sep)

\* "WHERE " + " AND ".join(clauses), or nothing
Where(clauses) ==
    IF clauses # <<>> THEN <<Lit("WHERE ")>> \o Join(clauses, " AND ") ELSE <<>>

\* (label OR label ...) over the variable var, or no clause
LabelClause(var, labels) ==
    IF labels # <<>>
    THEN << <<Lit("(")>>
            \o Join([i \in 1..Len(labels) |->
                        <<Lit(var), Lit(":<bt>"), Id(labels[i]), Lit("<bt>")>>], " OR ")
            \o <<Lit(")")>> >>
    ELSE <<>>

\* ":" + "|".join(rel_types), or nothing: the types are not quoted
TypeFilter(rel_types) ==
    IF rel_types # <<>>
    THEN <<Lit(":")>> \o Join([i \in 1..Len(rel_types) |-> <<Id(rel_types[i])>>], "|")
    ELSE <<>>

\* GraphRepository.create_node's query
create_node_query(data) ==
    Query(<<Lit("CREATE (n:_Node:<bt>"), Id(data.label),
            Lit("<bt> {uid: $uid, name: $name, description: $description, source: $source, created_at: datetime(), updated_at: datetime()}) SET n += $properties RETURN n, labels(n) AS labels")>>,
          [name |-> data.name])

\* GraphRepository.node_exists's query
node_exists_query(label, name) ==
    Query(<<Lit("MATCH (n:_Node:<bt>"), Id(label),
            Lit("<bt> {name: $name}) RETURN count(n) > 0 AS exists")>>,
          [name |-> name])

\* GraphRepository.find_nodes's query
find_nodes_query(nf) ==
    LET c2 == IF nf.name_contains # <<>>
              THEN << <<Lit("toLower(n.name) CONTAINS toLower($name_contains)")>> >>
              ELSE <<>>
        c3 == [i \in 1..Len(nf.properties_match) |->
                 <<Lit("n.<bt>"), Id(nf.properties_match[i]), Lit("<bt> = $prop_i")>>]
    IN Query(<<Lit("MATCH (n:_Node) ")>>
             \o Where(LabelClause("n", nf.labels) \o c2 \o c3)
             \o <<Lit(" RETURN n, labels(n) AS labels ORDER BY n.name SKIP $offset LIMIT $limit")>>,
             [name_contains |-> nf.name_contains])

\* GraphRepository.create_relationship's query
create_relationship_query(data) ==
    Query(<<Lit("MATCH (source:_Node {uid: $source_uid}) MATCH (target:_Node {uid: $target_uid}) CREATE (source)-[r:<bt>"),
            Id(data.rel_type),
            Lit("<bt> {weight: $weight, source: $source, created_at: datetime(), updated_at: datetime()}]->(target) SET r += $properties RETURN source.uid AS source_uid, target.uid AS target_uid, type(r) AS rel_type, properties(r) AS rel")>>,
          [source_uid |-> data.source_uid])

\* GraphRepository.get_relationships's query
get_relationships_query(uid, rf) ==
    LET rel_type_match ==
           IF rf.rel_types # <<>>
           THEN <<Lit(":")>>
                \o Join([i \in 1..Len(rf.rel_types) |->
                           <<Lit("<bt>"), Id(rf.rel_types[i]), Lit("<bt>")>>], "|")
           ELSE <<>>
    IN Query(<<Lit("MATCH (source:_Node {uid: $uid})-[r")>> \o rel_type_match
             \o <<Lit("]-(target:_Node) RETURN source.uid AS source_uid, target.uid AS target_uid, type(r) AS rel_type, properties(r) AS rel ORDER BY r.weight DESC SKIP $offset LIMIT $limit")>>,
             [uid |-> uid])

\* GraphRepository.update_relationship's query
update_relationship_query(s, rel_type) ==
    Query(<<Lit("MATCH (source:_Node {uid: $source_uid}) -[r:<bt>"), Id(rel_type),
            Lit("<bt>]-> (target:_Node {uid: $target_uid}) SET r.updated_at = datetime(), r.weight = $weight RETURN source.uid AS source_uid, target.uid AS target_uid, type(r) AS rel_type, properties(r) AS rel")>>,
          [source_uid |-> s])

\* GraphRepository.delete_relationship's query
delete_relationship_query(s, rel_type) ==
    Query(<<Lit("MATCH (source:_Node {uid: $source_uid}) -[r:<bt>"), Id(rel_type),
            Lit("<bt>]-> (target:_Node {uid: $target_uid}) DELETE r RETURN count(r) AS deleted")>>,
          [source_uid |-> s])

\* GraphRepository._get_neighborhood's query.  The clauses on
\* properties_match are appended to node_conditions after it was joined
\* into node_where_clauses, so they never reach the text.
neighborhood_query(sg) ==
    LET node_where_clauses == LabelClause("node", sg.labels)
        path_conditions ==
           IF node_where_clauses # <<>>
           THEN << <<Lit("ALL(node IN nodes(path)[1..] WHERE ")>>
                   \o Join(node_where_clauses, " AND ") \o <<Lit(")")>> >>
           ELSE <<>>
    IN Query(<<Lit("MATCH (center:_Node {uid: $center_uid}) MATCH path = (center)-[")>>
             \o TypeFilter(sg.rel_types)
             \o <<Lit("*1.."), Num(sg.depth), Lit("]-(m:_Node) ")>>
             \o Where(path_conditions)
             \o <<Lit(" WITH DISTINCT m, path, center LIMIT $limit ...")>>,
             [center_uid |-> sg.center_uid])

\* GraphRepository._get_filtered_subgraph's query
filtered_subgraph_query(sg) ==
    Query(<<Lit("MATCH (n:_Node) ")>>
          \o Where(LabelClause("n", sg.labels))
          \o <<Lit(" WITH collect(DISTINCT n)[..$limit] AS filtered_nodes UNWIND filtered_nodes AS n OPTIONAL MATCH (n)-[r")>>
          \o TypeFilter(sg.rel_types)
          \o <<Lit("]-(m:_Node) WHERE m IN filtered_nodes ...")>>,
          [center_uid |-> sg.center_uid])

\* GraphRepository.get_subgraph's choice between the two
get_subgraph_query(sg) ==
    IF sg.center_uid # <<>> THEN neighborhood_query(sg) ELSE filtered_subgraph_query(sg)

\* The strings callers give as labels, relationship types and property keys.
IdentWords ==
    {<<"T", "e", "c", "h">>,
     <<"t", "e", "c", "h">>,
     <<"U", "S", "E", "S">>,
     <<"X", "<bt>", ")", "/">>,
     <<"k", "<bt>">>}

\* The strings callers give as values: a uid, a name, a substring.
ValueWords == {<<"v", "<bt>">>}

PageLimits == {LimitMin - 1, LimitMin, LimitMax, LimitMax + 1}
PageOffsets == {OffsetMin - 1, OffsetMin}
Depths == {DepthMin - 1, DepthMin, DepthMax, DepthMax + 1}

\* What a call whose payload or filter the model layer refuses gives its
\* caller: pydantic's ValidationError, before the service is entered.
Refused(st, op, arg) == Result(st, op, arg, "ValidationError", NoRet, <<>>)

Composed(st, op, arg, queries) == Result(st, op, arg, "ok", queries, <<>>)

\* NodeCreate(...) then GraphService.create_node: node_exists, create_node
ComposeCreateNode ==
    /\ Fresh
    /\ \E label \in IdentWords : \E name \in ValueWords :
          LET data == [label |-> label, name |-> name]
          IN Apply(IF label_must_be_pascal_case(label)
                   THEN Composed(Store, "create_node", data,
                                 <<node_exists_query(label, name), create_node_query(data)>>)
                   ELSE Refused(Store, "create_node", data))

\* RelationshipCreate(...) then GraphRepository.create_relationship
ComposeCreateRelationship ==
    /\ Fresh
    /\ \E type \in IdentWords : \E s \in ValueWords :
          LET data == [rel_type |-> type, source_uid |-> s]
          IN Apply(IF rel_type_must_be_upper_snake(type)
                   THEN Composed(Store, "create_relationship", data,
                                 <<create_relationship_query(data)>>)
                   ELSE Refused(Store, "create_relationship", data))

\* update_relationship(source_uid, target_uid, rel_type, data): rel_type is
\* a plain str argument.
ComposeUpdateRelationship ==
    /\ Fresh
    /\ \E type \in IdentWords : \E s \in ValueWords :
          Apply(Composed(Store, "update_relationship", [rel_type |-> type, source_uid |-> s],
                         <<update_relationship_query(s, type)>>))

\* delete_relationship(source_uid, target_uid, rel_type)
ComposeDeleteRelationship ==
    /\ Fresh
    /\ \E type \in IdentWords : \E s \in ValueWords :
          Apply(Composed(Store, "delete_relationship", [rel_type |-> type, source_uid |-> s],
                         <<delete_relationship_query(s, type)>>))

\* NodeFilter(...) then find_nodes
ComposeFindNodes ==
    /\ Fresh
    /\ \E labels \in SeqsUpTo(IdentWords, MaxIdents) : \E keys \in SeqsUpTo(IdentWords, 1) :
       \E part \in ValueWords \cup {<<>>} : \E lim \in PageLimits : \E off \in PageOffsets :
          LET nf == [labels |-> labels, properties_match |-> keys, name_contains |-> part,
                     limit |-> lim, offset |-> off]
          IN Apply(IF PageValid(nf)
                   THEN Composed(Store, "find_nodes", nf, <<find_nodes_query(nf)>>)
                   ELSE Refused(Store, "find_nodes", nf))

\* RelationshipFilter(...) then get_relationships
ComposeGetRelationships ==
    /\ Fresh
    /\ \E types \in SeqsUpTo(IdentWords, MaxIdents) : \E uid \in ValueWords :
       \E lim \in PageLimits : \E off \in PageOffsets :
          LET rf == [rel_types |-> types, uid |-> uid, limit |-> lim, offset |-> off]
          IN Apply(IF PageValid(rf)
                   THEN Composed(Store, "get_relationships", rf,
                                 <<get_relationships_query(uid, rf)>>)
                   ELSE Refused(Store, "get_relationships", rf))

\* SubgraphFilter(...) then get_subgraph
ComposeGetSubgraph ==
    /\ Fresh
    /\ \E labels \in SeqsUpTo(IdentWords, MaxIdents) : \E types \in SeqsUpTo(IdentWords, 1) :
       \E center \in ValueWords \cup {<<>>} : \E d \in Depths : \E lim \in PageLimits :
          LET sg == [labels |-> labels, rel_types |-> types, center_uid |-> center,
                     depth |-> d, limit |-> lim]
          IN Apply(IF SubgraphFilterValid(sg)
                   THEN Composed(Store, "get_subgraph", sg, <<get_subgraph_query(sg)>>)
                   ELSE Refused(Store, "get_subgraph", sg))

NextQuery ==
    \/ ComposeCreateNode
    \/ ComposeCreateRelationship
    \/ ComposeUpdateRelationship
    \/ ComposeDeleteRelationship
    \/ ComposeFindNodes
    \/ ComposeGetRelationships
    \/ ComposeGetSubgraph

SpecQuery == Init /\ [][NextQuery]_vars

\* The characters of the safe pattern for identifiers: letters, digits and
\* the underscore.
SafeChars == UpperLetters \cup DOMAIN LowerToUpper \cup {"_", "0", "1"}

SafeIdentifier(w) == Len(w) >= 1 /\ \A i \in 1..Len(w) : w[i] \in SafeChars

\* The fragments of the queries of the last call.
Fragments ==
    UNION {{last.ret[q].text[i] : i \in 1..Len(last.ret[q].text)} : q \in 1..Len(last.ret)}

\* C21: a caller's string that stands in the text of a query as an
\* identifier (label, relationship type, property key) is restricted to the
\* safe vocabulary, and no other caller's value stands in the text.
C21_IdentifiersValidated ==
    (last.outcome = "ok" /\ last.op # "none")
    => \A f \in Fragments :
          /\ f.kind = "identifier" => SafeIdentifier(f.word)
          /\ f.kind # "number"

\* C25: a filter the model layer rejects (limit outside 1..10000, negative
\* offset, depth outside 1..10) is refused with InvalidFilterError, and no
\* query is composed for it.
C25_InvalidFilterError ==
    \A op \in {"find_nodes", "get_relationships", "get_subgraph"} :
       (last.op = op /\ ~(IF op = "get_subgraph" THEN SubgraphFilterValid(last.arg)
                                                 ELSE PageValid(last.arg)))
       => /\ last.outcome = "InvalidFilterError"
          /\ last.ret = NoRet


(***************************************************************************)
(* Relationships with open properties, statistics and reset (SpecRel).     *)
(***************************************************************************)

DefaultWeight == 1
WeightMin == 0

\* RelationshipCreate(**given): weight left out takes its default, and a
\* weight below the minimum is refused.
RelationshipCreateValid(given) == "weight" \in DOMAIN given => given.weight >= WeightMin

RelationshipCreate(given) ==
    [source_uid |-> given.source_uid,
     target_uid |-> given.target_uid,
     rel_type |-> given.rel_type,
     weight |-> IF "weight" \in DOMAIN given THEN given.weight ELSE DefaultWeight,
     properties |-> given.properties]

\* RelationshipUpdate(**data)
RelationshipUpdateValid(data) == "weight" \in DOMAIN data => data.weight >= WeightMin

\* The open properties a caller sends with a relationship.
RelProperties == {EmptyMap, [note |-> "x"], [weight |-> WeightMin - 1], [weight |-> 2]}

\* What callers write: with a weight or without one.
GivenRelationships ==
    [source_uid : KnownUids, target_uid : KnownUids, rel_type : UpdateTypes,
     properties : RelProperties]
    \cup [source_uid : KnownUids, target_uid : KnownUids, rel_type : UpdateTypes,
          weight : {WeightMin - 1, WeightMin, 2}, properties : RelProperties]

GivenUpdates ==
    {[weight |-> 2], [weight |-> WeightMin - 1]} \cup {[properties |-> p] : p \in RelProperties}

\* GraphService.get_stats.  MATCH (:_Node)-[r]-(:_Node) has no direction: it
\* gives one row for each way of laying a relationship on the pattern.
get_stats(st) ==
    LET marked == {n \in st.nodes : HasLabel(n, Marker)}
        ids == {n.id : n \in marked}
        rows == {row \in UNION {{<<r.id, r.src, r.tgt>>, <<r.id, r.tgt, r.src>>} : r \in st.rels} :
                    row[2] \in ids /\ row[3] \in ids}
        unwound == UNION {{<<n.id, i>> : i \in 1..Len(n.labels)} : n \in marked}
        label(u) == NodeById(st.nodes, u[1]).labels[u[2]]
        kept == {u \in unwound : label(u) # Marker}
    IN Result(st, "get_stats", "", "ok",
              [total_nodes |-> Cardinality(marked),
               total_relationships |-> Cardinality(rows),
               labels |-> [l \in {label(u) : u \in kept} |->
                             Cardinality({u \in kept : label(u) = l})]],
              <<Rd("count_nodes", ""), Rd("count_relationships", ""), Rd("count_labels", "")>>)

\* GraphService.clear_all: MATCH (n) DETACH DELETE n
clear_all(st) ==
    Result([st EXCEPT !.nodes = {}, !.rels = {}], "clear_all", "", "ok", NoRet,
           <<Wr("clear_all", "")>>)

CreateRelationshipOpen ==
    /\ Fresh
    /\ \E given \in GivenRelationships :
          Apply(IF RelationshipCreateValid(given)
                THEN create_relationship(Store, RelationshipCreate(given))
                ELSE Refused(Store, "create_relationship", given))

UpdateRelationshipOpen ==
    /\ Fresh
    /\ \E s \in KnownUids : \E t \in KnownUids : \E type \in UpdateTypes :
          \E data \in GivenUpdates :
             Apply(IF RelationshipUpdateValid(data)
                   THEN update_relationship(Store, s, t, type, data)
                   ELSE Refused(Store, "update_relationship", data))

GetStats == Fresh /\ \E st \in {Store} : Apply(get_stats(st))

ClearAll == Fresh /\ \E st \in {Store} : Apply(clear_all(st))

NextRel ==
    \/ CreateRelationshipOpen
    \/ UpdateRelationshipOpen
    \/ DeleteRelationship
    \/ GetStats
    \/ ClearAll

InitRel == InitConn /\ InitFrom(SampleStores(MaxSampleNodes, MaxSampleRels))

SpecRel == InitRel /\ [][NextRel]_vars

\* C23: however createRelationship and updateRelationship are called with
\* payloads the model layer accepts (any open properties map), every
\* persisted relationship has a weight of at least 0, and a relationship
\* created without a weight has the weight 1.
C23_WeightNonNegative ==
    /\ \A r \in rels : "weight" \in DOMAIN r.props /\ r.props.weight >= WeightMin
    /\ (last.op = "create_relationship" /\ last.outcome = "ok"
        /\ last.arg.weight = DefaultWeight)
       => /\ last.ret.weight = DefaultWeight
          /\ \A r \in rels : r.id >= nextRel - 1 => r.props.weight = DefaultWeight

\* C24: getStats returns the number of persisted nodes, the number of
\* persisted relationships and the count of nodes under each label but the
\* marker; after clearAll the three are zero and empty.
C24_StatsCountStore ==
    /\ (last.op = "get_stats")
       => /\ last.ret.total_nodes = Cardinality(nodes)
          /\ last.ret.total_relationships = Cardinality(rels)
          /\ Marker \notin DOMAIN last.ret.labels
          /\ \A l \in DOMAIN last.ret.labels :
                last.ret.labels[l] = Cardinality({n \in nodes : HasLabel(n, l)})
          /\ \A n \in nodes : \A i \in 1..Len(n.labels) :
                n.labels[i] # Marker => n.labels[i] \in DOMAIN last.ret.labels
    /\ (last.op = "clear_all")
       => get_stats(Store).last.ret =
             [total_nodes |-> 0, total_relationships |-> 0, labels |-> EmptyMap]

\* C27: there is at most one persisted relationship for a triple
\* (source_uid, target_uid, rel_type).
C27_OnePerTriple ==
    \A r1, r2 \in rels :
       r1.id # r2.id
       => ~( /\ r1.type = r2.type
             /\ _map_node(NodeById(nodes, r1.src)).uid = _map_node(NodeById(nodes, r2.src)).uid
             /\ _map_node(NodeById(nodes, r1.tgt)).uid = _map_node(NodeById(nodes, r2.tgt)).uid )


(***************************************************************************)
(* create_node through execute_write and its retries (SpecWrite).          *)
(* The attempts of the write are the steps of the connection manager; an   *)
(* attempt that the driver reports as failed may have been committed by    *)
(* the store (the failure came after the commit).                          *)
(***************************************************************************)

\* The store's id for the node it creates next.
FreshId(ns, u) ==
    LET ids == {n.id : n \in ns} \cup {u - 1}
    IN 1 + (CHOOSE m \in ids : \A k \in ids : k <= m)

WriteCreates == [label : {"Technology"}, name : Names, properties : {EmptyMap}]

\* What the driver raises from an attempt of a write, when it raises.
WriteFailures == {"ServiceUnavailable", "TransientError"}

\* The service call in flight between its first attempt and its outcome.
Pending(data, log) ==
    [op |-> "create_node", arg |-> data, outcome |-> "pending", ret |-> NoRet, log |-> log]

\* GraphService.create_node up to the first attempt of the write: the check
\* on (label, name), then GraphRepository.create_node draws the uid and
\* enters execute_write.
WriteBegin ==
    /\ Quiet
    /\ last.outcome # "pending"
    /\ uuids < MaxNodes
    /\ \E data \in WriteCreates :
          IF node_exists(nodes, data.label, data.name)
          THEN Apply(Result(Store, "create_node", data, "DuplicateNodeError", NoRet,
                            <<Rd("node_exists", data.name)>>))
          ELSE /\ uuids' = uuids + 1
               /\ ncalls' = ncalls + 1
               /\ call' = NewFrame("execute_write", ExecutePolicy, ncalls + 1,
                                   driver, made, closedD)
               /\ last' = Pending(data, <<Rd("node_exists", data.name)>>)
               /\ UNCHANGED <<driver, made, closedD, verifiedD, sessions>>
               /\ UNCHANGED <<nodes, rels, nextRel, constraint, procs>>

\* One attempt of the write inside its session: the transaction runs the
\* CREATE with the uid drawn before the first attempt.  It returns (e is
\* "ok"), or the driver raises e, after the store committed or before; the
\* store refuses a CREATE that breaks the declared constraint.
WriteRun(e, committed) ==
    /\ call.pc = "in_session"
    /\ last.outcome = "pending"
    /\ LET data == last.arg
           uid == UidPool[uuids]
           n == NewNode(FreshId(nodes, uuids), uid, data)
           runs == e = "ok" \/ committed
           exc == IF runs /\ UidClash(nodes \cup {n}, n, constraint) THEN "ClientError" ELSE e
           f == IF exc = "ok" THEN OnReturn(Note(call, exc))
                ELSE IF exc \in ClientErrorTypes
                THEN OnRaise(Note(call, exc), "QueryError", ThisExc(call, exc))
                ELSE OnRaise(Note(call, exc), exc, NoExc)
           log == Append(last.log, Wr("create_node", uid))
       IN /\ sessions' = session_exit(sessions, call.session, <<call.id, call.attempt>>, exc)
          /\ call' = f
          /\ nodes' = IF runs /\ exc # "ClientError" THEN nodes \cup {n} ELSE nodes
          /\ last' = IF f.pc # "done" THEN [last EXCEPT !.log = log]
                     ELSE IF f.outcome = "return"
                     THEN [last EXCEPT !.outcome = "ok", !.ret = _map_node(n), !.log = log]
                     ELSE [last EXCEPT !.outcome = f.outcome, !.log = log]
    /\ UNCHANGED <<driver, made, closedD, verifiedD, ncalls>>
    /\ UNCHANGED <<rels, nextRel, uuids, constraint, procs>>

NextWrite ==
    \/ WriteBegin
    \/ ExecEnter
    \/ \E e \in {"ok"} \cup WriteFailures : \E committed \in BOOLEAN : WriteRun(e, committed)
    \/ Sleep

\* A connected manager over an empty store, the constraint declared or not.
InitWrite ==
    /\ driver = 1
    /\ made = 1
    /\ closedD = {}
    /\ verifiedD = {1}
    /\ sessions = <<>>
    /\ ncalls = 0
    /\ call = IdleFrame
    /\ InitProcs
    /\ nodes = {}
    /\ rels = {}
    /\ nextRel = 1
    /\ uuids = 0
    /\ constraint \in BOOLEAN
    /\ last = [op |-> "none", arg |-> "", outcome |-> "none", ret |-> NoRet, log |-> <<>>]

SpecWrite == InitWrite /\ [][NextWrite]_vars

\* C28: a createNode call that returns successfully has persisted exactly
\* one new node, whatever retryable failures its attempts met, a failure
\* reported after the commit of an earlier attempt included.
C28_ExactlyOnce ==
    (last.op = "create_node" /\ last.outcome = "ok")
    => Cardinality({n \in nodes : _map_node(n).uid = last.ret.uid}) = 1


(***************************************************************************)
(* create_relationship and delete_node of concurrent callers (SpecLink).   *)
(* Each transaction of a call is one step; the steps of the two callers    *)
(* interleave in any order.                                                *)
(***************************************************************************)

LinkCreates ==
    [source_uid : KnownUids, target_uid : KnownUids, rel_type : RelTypes,
     weight : Weights, properties : {EmptyMap}]

IsLink(p) == "rel_type" \in DOMAIN procs[p].data

\* GraphService.create_relationship, lines 76-79: get_node(source_uid).
LinkCheckSource(p) ==
    /\ procs[p].pc = "idle"
    /\ \E data \in LinkCreates :
          LET found == get_node(nodes, data.source_uid).found
          IN procs' = [procs EXCEPT ![p] =
                          [pc |-> IF found THEN "source_checked" ELSE "done",
                           data |-> data,
                           outcome |-> IF found THEN "none" ELSE "NodeNotFoundError",
                           ret |-> NoRet,
                           checkAt |-> Tick,
                           writeAt |-> 0]]
    /\ UNCHANGED <<nodes, rels, nextRel, uuids, constraint, last>>
    /\ UNCHANGED connVars

\* GraphService.create_relationship, lines 81-84: get_node(target_uid).
LinkCheckTarget(p) ==
    /\ procs[p].pc = "source_checked"
    /\ LET found == get_node(nodes, procs[p].data.target_uid).found
       IN procs' = [procs EXCEPT ![p] =
                       [@ EXCEPT !.pc = IF found THEN "checked" ELSE "done",
                                 !.outcome = IF found THEN "none" ELSE "NodeNotFoundError"]]
    /\ UNCHANGED <<nodes, rels, nextRel, uuids, constraint, last>>
    /\ UNCHANGED connVars

\* GraphService.create_relationship, lines 86-92: the write of
\* GraphRepository.create_relationship, and the raise when it returns None.
LinkWrite(p) ==
    /\ procs[p].pc = "checked"
    /\ LET new == NewRels(nodes, procs[p].data, nextRel)
       IN /\ rels' = rels \cup new
          /\ nextRel' = nextRel + Cardinality(new)
          /\ procs' = [procs EXCEPT ![p] =
                          [@ EXCEPT !.pc = "done",
                                    !.outcome = IF new = {} THEN "NodeNotFoundError" ELSE "ok",
                                    !.ret = IF new = {} THEN NoRet
                                            ELSE _map_relationship(
                                                    LET r == MinId(new)
                                                    IN RelRecord(r, NodeById(nodes, r.src),
                                                                 NodeById(nodes, r.tgt))),
                                    !.writeAt = Tick]]
    /\ UNCHANGED <<nodes, uuids, constraint, last>>
    /\ UNCHANGED connVars

\* GraphService.delete_node of a concurrent caller: one transaction.
LinkDeleteNode(p) ==
    /\ procs[p].pc = "idle"
    /\ \E uid \in KnownUids :
          LET res == delete_node(Store, uid)
          IN /\ nodes' = res.st.nodes
             /\ rels' = res.st.rels
             /\ procs' = [procs EXCEPT ![p] =
                             [pc |-> "done",
                              data |-> [uid |-> uid],
                              outcome |-> res.last.outcome,
                              ret |-> res.last.ret,
                              checkAt |-> 0,
                              writeAt |-> Tick]]
    /\ UNCHANGED <<nextRel, uuids, constraint, last>>
    /\ UNCHANGED connVars

NextLink ==
    \/ \E p \in Procs : LinkCheckSource(p)
    \/ \E p \in Procs : LinkCheckTarget(p)
    \/ \E p \in Procs : LinkWrite(p)
    \/ \E p \in Procs : LinkDeleteNode(p)

InitLink == InitConn /\ InitFrom(SampleStores(MaxSampleNodes, MaxSampleRels))

SpecLink == InitLink /\ [][NextLink]_vars

NodeIds(ns) == {n.id : n \in ns}

\* The write of caller p runs in this step.
Writes(p) == procs[p].pc = "checked" /\ procs'[p].pc = "done"

\* C29: however the steps of createRelationship and deleteNode of
\* concurrent callers interleave, both endpoints of every persisted
\* relationship are persisted nodes; a createRelationship of which an
\* endpoint was deleted between its checks and its write persists nothing
\* and fails with NodeNotFoundError.
C29_NoDanglingRelationship ==
    [][ /\ \A r \in rels' : r.src \in NodeIds(nodes') /\ r.tgt \in NodeIds(nodes')
        /\ \A p \in Procs :
              ( /\ Writes(p)
                /\ \/ ByUid(nodes, procs[p].data.source_uid) = {}
                   \/ ByUid(nodes, procs[p].data.target_uid) = {} )
              => /\ procs'[p].outcome = "NodeNotFoundError"
                 /\ rels' = rels ]_vars

\* A createRelationship passed both checks, a deleteNode of the other
\* caller then removed an endpoint, and the write found nothing.
C29_Witness ==
    \E p, q \in Procs :
       /\ procs[p].pc = "done" /\ IsLink(p)
       /\ procs[p].writeAt > 0
       /\ procs[p].outcome = "NodeNotFoundError"
       /\ procs[q].pc = "done" /\ ~IsLink(q)
       /\ procs[q].outcome = "ok"
       /\ procs[p].checkAt < procs[q].writeAt
       /\ procs[q].writeAt < procs[p].writeAt

====
